---- MODULE Spec2Model ----
(***************************************************************************)
(* UserJourneyTracker: a client-side visitor-attribution recorder.         *)
(*                                                                         *)
(* Two variants of the tracker live in the repository:                     *)
(*   variant "A"  src/unnamed/part_001  (attribution persistence, Policy A,*)
(*                delivery of every event to a backend)                    *)
(*   variant "B"  src/src/index.tsx     (per-event dedup, Policy B)        *)
(* The model holds one tracker instance per page load together with the    *)
(* browser state it reads and writes (location, cookie, localStorage,      *)
(* history hooks, clock).  Every public operation and every browser        *)
(* navigation signal is one action: JavaScript runs each handler to        *)
(* completion, so a handler and everything it calls is one atomic step.    *)
(***************************************************************************)
EXTENDS Integers, Sequences, FiniteSets, TLC

VARIABLES
    variant,            \* "A" (part_001) or "B" (index.tsx); fixed per behaviour
    hasWindow,          \* typeof window !== 'undefined'; fixed per behaviour
    options,            \* this.options (merged with the defaults)
    events,             \* this.events
    isInitialized,      \* this.isInitialized
    uuid,               \* this.uuid
    derivUserId,        \* this.derivUserId ("" is null)
    isLoggedIn,         \* this.isLoggedIn
    oldUuid,            \* this.oldUuid (0 is null)
    lastTrackedUrl,     \* this.lastTrackedUrl (NoUrl is '')
    currentPageEventId, \* this.currentPageEventId (0 is null)
    currentAttribution, \* this.currentAttribution (variant A; <<>> is {})
    href,               \* window.location.href
    referrer,           \* document.referrer
    cookie,             \* value of the user_journey_uuid cookie (0: no cookie)
    ls,                 \* localStorage: a function from the keys present to values
    hooks,              \* navigation listeners the tracker has installed
    now,                \* Date.now(), in milliseconds
    nextId,             \* next value generateUUID() yields (identifiers are fresh)
    world,              \* what the behaviour draws from: the URLs visited, the
                        \* users who sign in, the referrers of page loads
    left,               \* what may still happen in this behaviour: identifiers
                        \* drawn, page loads, cookie clearings, storage faults,
                        \* clock ticks
    inFlight,           \* deliveries (variant A) whose fetch has not completed:
                        \* the event_id each carries, in the order issued
    returned            \* the array the page's own code holds from its last
                        \* call of getEvents() or exportJourney().events

vars == <<variant, hasWindow, options, events, isInitialized, uuid, derivUserId,
          isLoggedIn, oldUuid, lastTrackedUrl, currentPageEventId,
          currentAttribution, href, referrer, cookie, ls, hooks, now, nextId,
          world, left, inFlight, returned>>

(***************************************************************************)
(* Bounds of the model.                                                    *)
(***************************************************************************)
MaxEvents == 2          \* options.maxEvents of the bounded instance
MaxNewIds == 3          \* identifiers generateUUID() hands out per behaviour
MaxPageLoads == 1       \* page loads after the first, per behaviour
MaxCookieClears == 1    \* times the device cookie is cleared, per behaviour
MaxQuotaErrors == 1     \* storage faults per behaviour
MaxTicks == 2           \* clock ticks per behaviour
MaxInFlight == 2        \* deliveries in flight at a time
ExpiryMinutes == 1      \* options.attributionExpiry of the bounded instance

(***************************************************************************)
(* Program constants.                                                      *)
(***************************************************************************)
KeepOnQuota == 10       \* saveEvents keeps the last 10 events on a quota error
MsPerMinute == 60000    \* (1000 * 60) in loadAttributionData

storageKey == "user_journey_history"
attributionKey == "user_journey_history_attribution"
userIdKey == "user_journey_history_user_id"
oldUuidKey == "user_journey_history_old_uuid"

utmParams == {"utm_source", "utm_medium", "utm_campaign", "utm_term",
              "utm_ad_id", "utm_ad_group_id", "utm_campaign_id"}
clickIds == {"gclid", "fbclid", "mkclid"}
attributionParams == utmParams \cup clickIds

(***************************************************************************)
(* URLs. A URL is a record of its hostname, port, pathname, query          *)
(* parameters (name -> raw value) and fragment; href is such a record.     *)
(***************************************************************************)
NoUrl == [hostname |-> "", port |-> "", pathname |-> "", search |-> <<>>, hash |-> ""]

Url(path, search, hash) ==
    [hostname |-> "site.test", port |-> "", pathname |-> path,
     search |-> search, hash |-> hash]

UrlHome == Url("/", <<>>, "")
UrlGoogle ==
    Url("/", [k \in {"utm_source", "utm_medium", "utm_campaign"} |->
                 CASE k = "utm_source" -> "google"
                   [] k = "utm_medium" -> "cpc"
                   [] OTHER -> "spring_sale"], "")
UrlCheckout == Url("/checkout", <<>>, "")
UrlClick ==
    Url("/checkout", [k \in {"gclid", "utm_term", "page"} |->
                 CASE k = "gclid" -> "abc"
                   [] k = "utm_term" -> ""
                   [] OTHER -> "products"], "#top")

Urls == {UrlHome, UrlGoogle, UrlCheckout, UrlClick}

\* document.referrer: none, a page of another site, a page of this host on
\* another port.
RefNone == NoUrl
RefExternal == [hostname |-> "ads.test", port |-> "", pathname |-> "/", search |-> <<>>, hash |-> ""]
RefOtherPort == [hostname |-> "site.test", port |-> "8443", pathname |-> "/", search |-> <<>>, hash |-> ""]
Referrers == {RefNone, RefExternal, RefOtherPort}

Users == {"u1", "u2"}

\* An optional argument is a sequence of length 0 (undefined) or 1.
Optional(S) == {<<>>} \cup {<<x>> : x \in S}

\* A JavaScript object literal / spread: o with key k set to v.
With(o, k, v) == [x \in DOMAIN o \cup {k} |-> IF x = k THEN v ELSE o[x]]
Without(o, k) == [x \in DOMAIN o \ {k} |-> o[x]]

\* JSON.stringify / JSON.parse: the stored text is tagged as such; parse
\* gives back the value the text denotes.
JSONstringify(v) == [json |-> v]
JSONparse(t) == t.json

(***************************************************************************)
(* The handlers are written as operators on a record s of everything a     *)
(* handler may read or write: the tracker's fields, the browser state, and *)
(* the bookkeeping of the running operation (s.io, s.fetched, s.thrown:    *)
(* an exception is propagating; s.F: which of the operation's setItem      *)
(* calls, counted by s.w, fail with QuotaExceededError).                   *)
(***************************************************************************)
Cur(F) ==
    [events |-> events, isInitialized |-> isInitialized, uuid |-> uuid,
     derivUserId |-> derivUserId, isLoggedIn |-> isLoggedIn, oldUuid |-> oldUuid,
     lastTrackedUrl |-> lastTrackedUrl, currentPageEventId |-> currentPageEventId,
     currentAttribution |-> currentAttribution, href |-> href, cookie |-> cookie,
     ls |-> ls, hooks |-> hooks, nextId |-> nextId, quotaErrors |-> 0,
     io |-> <<>>, fetched |-> <<>>, thrown |-> FALSE, F |-> F, w |-> 0]

IoEntry(type, key, ok) == [type |-> type, key |-> key, ok |-> ok]

\* localStorage.setItem(key, value): throws QuotaExceededError when the
\* store cannot take the value.
setItem(s, key, value) ==
    IF (s.w + 1) \in s.F
    THEN [s EXCEPT !.w = @ + 1, !.thrown = TRUE, !.quotaErrors = @ + 1,
                   !.io = Append(@, IoEntry("setItem", key, FALSE))]
    ELSE [s EXCEPT !.w = @ + 1, !.ls = With(@, key, value),
                   !.io = Append(@, IoEntry("setItem", key, TRUE))]

\* localStorage.removeItem(key)
removeItem(s, key) ==
    [s EXCEPT !.ls = Without(@, key),
              !.io = Append(@, IoEntry("removeItem", key, TRUE))]

\* localStorage.getItem(key) returned a value (null otherwise)
hasItem(s, key) == key \in DOMAIN s.ls
getItem(s, key) == s.ls[key]

\* generateUUID(): a fresh identifier; Drawn is the state after the draw.
generateUUID(s) == s.nextId
Drawn(s) == [s EXCEPT !.nextId = @ + 1]

setCookie(s, value) ==
    IF ~hasWindow THEN s
    ELSE [s EXCEPT !.cookie = value,
                   !.io = Append(@, IoEntry("setCookie", "user_journey_uuid", TRUE))]

getCookie(s) == IF ~hasWindow THEN 0 ELSE s.cookie

\* getOrCreateUUID with a fault: the cookie is not consulted.
getOrCreateUUIDAlwaysNew(s) ==
    IF ~hasWindow
    THEN [Drawn(s) EXCEPT !.uuid = generateUUID(s)]
    ELSE [setCookie(Drawn(s), generateUUID(s)) EXCEPT !.uuid = generateUUID(s)]

getOrCreateUUID(s) ==
    IF ~hasWindow
    THEN [Drawn(s) EXCEPT !.uuid = generateUUID(s)]
    ELSE IF getCookie(s) # 0
         THEN [s EXCEPT !.uuid = getCookie(s)]
         ELSE [setCookie(Drawn(s), generateUUID(s)) EXCEPT !.uuid = generateUUID(s)]

(***************************************************************************)
(* Attribution extractor and attribution persistence.                      *)
(***************************************************************************)
\* parseAttributionData with a fault: the referrer is compared with the page
\* by origin (host and port), not by hostname.
parseAttributionDataByOrigin(s) ==
    IF ~hasWindow THEN <<>>
    ELSE
      LET params == s.href.search
          got == {p \in attributionParams : p \in DOMAIN params /\ params[p] # ""}
          fields == [p \in got |-> params[p]]
          withRef == IF /\ referrer # RefNone
                        /\ \/ referrer.hostname # s.href.hostname
                           \/ referrer.port # s.href.port
                     THEN With(fields, "referrer", referrer)
                     ELSE fields
          withLanding == With(withRef, "landing_page", s.href.pathname)
      IN IF variant = "A"
         THEN With(withLanding, "attribution_timestamp", now)
         ELSE withLanding

parseAttributionData(s) ==
    IF ~hasWindow THEN <<>>
    ELSE
      LET params == s.href.search
          got == {p \in attributionParams : p \in DOMAIN params /\ params[p] # ""}
          fields == [p \in got |-> params[p]]
          withRef == IF referrer # RefNone /\ referrer.hostname # s.href.hostname
                     THEN With(fields, "referrer", referrer)
                     ELSE fields
          withLanding == With(withRef, "landing_page", s.href.pathname)
      IN IF variant = "A"
         THEN With(withLanding, "attribution_timestamp", now)
         ELSE withLanding

hasNewAttributionData(newAttribution) ==
    \E param \in attributionParams : param \in DOMAIN newAttribution

saveAttributionData(s) ==
    IF ~hasWindow THEN s
    ELSE [setItem(s, attributionKey, JSONstringify(s.currentAttribution))
             EXCEPT !.thrown = FALSE]

\* ageInMinutes <= attributionExpiry, with ageInMinutes the real quotient
\* (now - attribution_timestamp) / (1000 * 60)
NotExpired(attribution) ==
    now - attribution["attribution_timestamp"] <= options.attributionExpiry * MsPerMinute

\* loadAttributionData with a fault: the entry of an expired record is left in
\* storage.
loadAttributionDataKeepsEntry(s) ==
    IF ~hasWindow THEN s
    ELSE IF ~hasItem(s, attributionKey) THEN s
    ELSE
      LET attribution == JSONparse(getItem(s, attributionKey)) IN
      IF "attribution_timestamp" \in DOMAIN attribution
            /\ attribution["attribution_timestamp"] # 0
      THEN IF NotExpired(attribution)
           THEN [s EXCEPT !.currentAttribution = attribution]
           ELSE s
      ELSE [s EXCEPT !.currentAttribution = attribution]

loadAttributionData(s) ==
    IF ~hasWindow THEN s
    ELSE IF ~hasItem(s, attributionKey) THEN s
    ELSE
      LET attribution == JSONparse(getItem(s, attributionKey)) IN
      IF "attribution_timestamp" \in DOMAIN attribution
            /\ attribution["attribution_timestamp"] # 0
      THEN IF NotExpired(attribution)
           THEN [s EXCEPT !.currentAttribution = attribution]
           ELSE removeItem(s, attributionKey)
      ELSE [s EXCEPT !.currentAttribution = attribution]

\* getAttributionForPageView with a fault: a record that is reused is stamped
\* with the time of the reuse and stored again.
getAttributionRefreshed(s) ==
    LET urlAttribution == parseAttributionData(s)
        refreshed == With(s.currentAttribution, "attribution_timestamp", now)
    IN IF hasNewAttributionData(urlAttribution)
       THEN [s |-> saveAttributionData([s EXCEPT !.currentAttribution = urlAttribution]),
             attribution |-> urlAttribution]
       ELSE IF DOMAIN s.currentAttribution # {}
            THEN [s |-> saveAttributionData([s EXCEPT !.currentAttribution = refreshed]),
                  attribution |-> With(refreshed, "landing_page", s.href.pathname)]
            ELSE [s |-> s, attribution |-> urlAttribution]

\* getAttributionForPageView with a fault: new marketing fields are merged
\* into the record held, whose other fields stay.
getAttributionMerged(s) ==
    LET urlAttribution == parseAttributionData(s)
        merged == [k \in DOMAIN s.currentAttribution \cup DOMAIN urlAttribution |->
                      IF k \in DOMAIN urlAttribution
                      THEN urlAttribution[k] ELSE s.currentAttribution[k]]
    IN IF hasNewAttributionData(urlAttribution)
       THEN [s |-> saveAttributionData([s EXCEPT !.currentAttribution = merged]),
             attribution |-> merged]
       ELSE IF DOMAIN s.currentAttribution # {}
            THEN [s |-> s,
                  attribution |-> With(s.currentAttribution, "landing_page", s.href.pathname)]
            ELSE [s |-> s, attribution |-> urlAttribution]

\* The result is the state after the call and the attribution returned.
getAttributionForPageView(s) ==
    LET urlAttribution == parseAttributionData(s) IN
    IF hasNewAttributionData(urlAttribution)
    THEN [s |-> saveAttributionData([s EXCEPT !.currentAttribution = urlAttribution]),
          attribution |-> urlAttribution]
    ELSE IF DOMAIN s.currentAttribution # {}
         THEN [s |-> s,
               attribution |-> With(s.currentAttribution, "landing_page", s.href.pathname)]
         ELSE [s |-> s, attribution |-> urlAttribution]

(***************************************************************************)
(* Event log.                                                              *)
(***************************************************************************)
LastN(seq, n) == SubSeq(seq, Len(seq) - n + 1, Len(seq))

\* saveEvents with a fault: after a failed write the log is cut to its last
\* 10 events but the write is not tried again.
saveEventsNoRetry(s) ==
    IF ~hasWindow THEN s
    ELSE
      LET r == setItem(s, storageKey, JSONstringify(s.events)) IN
      IF ~r.thrown THEN r
      ELSE
        LET caught == [r EXCEPT !.thrown = FALSE] IN
        IF Len(caught.events) > KeepOnQuota
        THEN [caught EXCEPT !.events = LastN(@, KeepOnQuota)]
        ELSE caught

RECURSIVE saveEvents(_)
saveEvents(s) ==
    IF ~hasWindow THEN s
    ELSE
      LET r == setItem(s, storageKey, JSONstringify(s.events)) IN
      IF ~r.thrown THEN r
      ELSE
        LET caught == [r EXCEPT !.thrown = FALSE] IN
        IF Len(caught.events) > KeepOnQuota
        THEN saveEvents([caught EXCEPT !.events = LastN(@, KeepOnQuota)])
        ELSE caught

\* loadEvents with a fault: the stored log is not read.
loadEventsSkipped(s) == s

loadEvents(s) ==
    IF ~hasWindow THEN s
    ELSE IF hasItem(s, storageKey)
         THEN [s EXCEPT !.events = JSONparse(getItem(s, storageKey))]
         ELSE s

\* sendEventToBackend with a fault: the payload carries no prior identifier.
sendEventToBackendWithoutPrior(s, event) ==
    [s EXCEPT !.fetched = Append(@, [uuid |-> s.uuid,
                                      deriv_user_id |-> s.derivUserId,
                                      old_uuid |-> 0,
                                      event |-> event,
                                      timestamp |-> now]),
              !.io = Append(@, IoEntry("fetch", "API_ENDPOINT", TRUE))]

\* sendEventToBackend up to its await: the payload is built and serialized
\* and fetch is called; the response is handled in a later task.
sendEventToBackend(s, event) ==
    [s EXCEPT !.fetched = Append(@, [uuid |-> s.uuid,
                                      deriv_user_id |-> s.derivUserId,
                                      old_uuid |-> s.oldUuid,
                                      event |-> event,
                                      timestamp |-> now]),
              !.io = Append(@, IoEntry("fetch", "API_ENDPOINT", TRUE))]

\* Trimmed with a fault: the log is cut only when it exceeds the limit by
\* more than one event.
TrimmedLate(seq) ==
    IF Len(seq) > options.maxEvents + 1 THEN LastN(seq, options.maxEvents) ELSE seq

\* Trimmed with a fault: the newest events are discarded, not the oldest.
TrimmedOldest(seq) ==
    IF Len(seq) > options.maxEvents THEN SubSeq(seq, 1, options.maxEvents) ELSE seq

Trimmed(seq) ==
    IF Len(seq) > options.maxEvents THEN LastN(seq, options.maxEvents) ELSE seq

\* addEvent with a fault: the new event is put in front of the log.
addEventInFront(s, event) ==
    LET pushed == [s EXCEPT !.events = Trimmed(<<event>> \o @)]
        saved == saveEvents(pushed)
    IN IF variant = "A" THEN sendEventToBackend(saved, event) ELSE saved

addEvent(s, event) ==
    LET pushed == [s EXCEPT !.events = Trimmed(Append(@, event))]
        saved == saveEvents(pushed)
    IN IF variant = "A" THEN sendEventToBackend(saved, event) ELSE saved

\* clearEvents with a fault: the log is emptied in memory only.
clearEventsInMemoryOnly(s) == [s EXCEPT !.events = <<>>]

\* clearEvents with a fault: the reset also forgets the attribution and the
\* current event.
clearEventsAndAttribution(s) ==
    LET cleared == [s EXCEPT !.events = <<>>, !.currentAttribution = <<>>,
                             !.currentPageEventId = 0] IN
    IF hasWindow
    THEN removeItem(removeItem(cleared, storageKey), attributionKey)
    ELSE cleared

clearEvents(s) ==
    LET cleared == [s EXCEPT !.events = <<>>] IN
    IF hasWindow THEN removeItem(cleared, storageKey) ELSE cleared

\* findIndex / find: the first event with the identifier, 0 when none
findIndex(evs, eventId) ==
    IF \E i \in 1..Len(evs) : evs[i].event_id = eventId
    THEN CHOOSE i \in 1..Len(evs) :
            /\ evs[i].event_id = eventId
            /\ \A j \in 1..(i - 1) : evs[j].event_id # eventId
    ELSE 0

\* How a fetch ends: a response with ok set, a response without, a rejection.
Outcomes == {"ok", "not ok", "rejected"}

\* sendEventToBackendResumed with a fault: an event the backend has accepted
\* is taken out of the log.
sendEventToBackendAcknowledged(s, eventId, outcome) ==
    IF outcome = "ok" /\ findIndex(s.events, eventId) # 0
    THEN saveEvents([s EXCEPT !.events =
             SubSeq(@, 1, findIndex(@, eventId) - 1)
                \o SubSeq(@, findIndex(@, eventId) + 1, Len(@))])
    ELSE s

\* sendEventToBackend from its await on, for the delivery of event eventId:
\* console.error when the response is not ok or fetch rejected, nothing else.
sendEventToBackendResumed(s, eventId, outcome) == s

\* updateEventLoginState with a fault: the flag of every event is set.
updateEveryEventLoginState(s, eventId, loggedIn) ==
    LET eventIndex == findIndex(s.events, eventId) IN
    IF eventIndex # 0
    THEN saveEvents([s EXCEPT !.events = [i \in 1..Len(@) |->
                                   [@[i] EXCEPT !.is_loggedin = loggedIn]]])
    ELSE s

\* updateEventLoginState with a fault: the log is written to storage also
\* when no event carries the identifier.
updateEventLoginStateAlwaysSaves(s, eventId, loggedIn) ==
    LET eventIndex == findIndex(s.events, eventId) IN
    IF eventIndex # 0
    THEN saveEvents([s EXCEPT !.events[eventIndex].is_loggedin = loggedIn])
    ELSE saveEvents(s)

updateEventLoginState(s, eventId, loggedIn) ==
    LET eventIndex == findIndex(s.events, eventId) IN
    IF eventIndex # 0
    THEN saveEvents([s EXCEPT !.events[eventIndex].is_loggedin = loggedIn])
    ELSE s

(***************************************************************************)
(* Navigation pipeline.                                                    *)
(***************************************************************************)
PageViewEvent(s, attribution, eventId) ==
    [url |-> s.href, timestamp |-> now, referrer |-> referrer,
     attribution |-> attribution, uuid |-> s.uuid,
     is_loggedin |-> s.isLoggedIn, event_id |-> eventId]

\* trackCurrentPageView (variant A) with a fault: the URL is compared with
\* the URL of the last logged event, not with the last tracked URL.
trackCurrentPageViewAgainstLog(s) ==
    IF ~hasWindow THEN s
    ELSE IF Len(s.events) > 0 /\ s.events[Len(s.events)].url = s.href THEN s
    ELSE
      LET got == getAttributionForPageView([s EXCEPT !.lastTrackedUrl = s.href])
          eventId == generateUUID(got.s)
          event == PageViewEvent(got.s, got.attribution, eventId)
      IN addEvent([Drawn(got.s) EXCEPT !.currentPageEventId = eventId], event)

\* trackCurrentPageView (variant A) with a fault: no comparison with the last
\* tracked URL.
trackCurrentPageViewAlways(s) ==
    IF ~hasWindow THEN s
    ELSE
      LET got == getAttributionForPageView([s EXCEPT !.lastTrackedUrl = s.href])
          eventId == generateUUID(got.s)
          event == PageViewEvent(got.s, got.attribution, eventId)
      IN addEvent([Drawn(got.s) EXCEPT !.currentPageEventId = eventId], event)

\* Variant A (Policy A)
trackCurrentPageViewA(s) ==
    IF ~hasWindow THEN s
    ELSE IF s.lastTrackedUrl = s.href THEN s
    ELSE
      LET got == getAttributionForPageView([s EXCEPT !.lastTrackedUrl = s.href])
          eventId == generateUUID(got.s)
          event == PageViewEvent(got.s, got.attribution, eventId)
      IN addEvent([Drawn(got.s) EXCEPT !.currentPageEventId = eventId], event)

\* isNewAttributionSource with a fault: a changed URL alone does not count.
isNewAttributionSourceFieldsOnly(s, attribution) ==
    IF Len(s.events) = 0 THEN TRUE
    ELSE
      LET lastEvent == s.events[Len(s.events)] IN
      \E key \in DOMAIN attribution \ {"referrer", "landing_page"} :
          /\ attribution[key] # ""
          /\ \/ key \notin DOMAIN lastEvent.attribution
             \/ lastEvent.attribution[key] # attribution[key]

\* Variant B (Policy B)
isNewAttributionSource(s, attribution) ==
    IF Len(s.events) = 0 THEN TRUE
    ELSE
      LET lastEvent == s.events[Len(s.events)] IN
      IF lastEvent.url # s.href THEN TRUE
      ELSE \E key \in DOMAIN attribution \ {"referrer", "landing_page"} :
              /\ attribution[key] # ""
              /\ \/ key \notin DOMAIN lastEvent.attribution
                 \/ lastEvent.attribution[key] # attribution[key]

trackCurrentPageViewB(s) ==
    IF ~hasWindow THEN s
    ELSE
      LET attribution == parseAttributionData(s) IN
      IF isNewAttributionSource(s, attribution)
      THEN LET eventId == generateUUID(s)
               event == PageViewEvent(s, attribution, eventId)
           IN addEvent([Drawn(s) EXCEPT !.currentPageEventId = eventId], event)
      ELSE s

\* What an installed listener (patched pushState / replaceState, hashchange,
\* popstate) runs.  A: self.trackPageView() with no URL.  B: the guarded
\* call of trackCurrentPageView.
listener(s) ==
    IF variant = "A"
    THEN IF ~hasWindow THEN s ELSE trackCurrentPageViewA(s)
    ELSE IF s.href # s.lastTrackedUrl
         THEN trackCurrentPageViewB([s EXCEPT !.lastTrackedUrl = s.href])
         ELSE s

\* history.pushState / history.replaceState as the page sees them: the
\* browser's own function, wrapped by the tracker when the hook is installed.
historyPushState(s, url) ==
    LET moved == [s EXCEPT !.href = url] IN
    IF "pushState" \in s.hooks THEN listener(moved) ELSE moved

historyReplaceState(s, url) ==
    LET moved == [s EXCEPT !.href = url] IN
    IF "replaceState" \in s.hooks THEN listener(moved) ELSE moved

\* A history traversal or fragment navigation to url: popstate is dispatched,
\* and hashchange after it when the fragment changed.
dispatchPopState(s, url) ==
    LET moved == [s EXCEPT !.href = url]
        afterPop == IF "popstate" \in s.hooks THEN listener(moved) ELSE moved
    IN IF url.hash # s.href.hash /\ "hashchange" \in s.hooks
       THEN listener(afterPop)
       ELSE afterPop

HistoryHooks ==
    (IF options.trackHistoryChange THEN {"pushState", "replaceState"} ELSE {})
    \cup (IF options.trackHashChange THEN {"hashchange"} ELSE {})
    \cup {"popstate"}

setupAutoTrackingA(s) ==
    IF ~hasWindow THEN s
    ELSE [s EXCEPT !.hooks = @ \cup HistoryHooks]

setupAutoTrackingB(s) ==
    IF ~hasWindow THEN s
    ELSE LET tracked == trackCurrentPageViewB([s EXCEPT !.lastTrackedUrl = s.href])
         IN [tracked EXCEPT !.hooks = @ \cup HistoryHooks]

trackPageView(s, url) ==
    IF ~hasWindow THEN s
    ELSE
      LET pushed == IF url # <<>> THEN historyPushState(s, url[1]) ELSE s IN
      IF variant = "A"
      THEN trackCurrentPageViewA(pushed)
      ELSE trackCurrentPageViewB([pushed EXCEPT !.lastTrackedUrl = pushed.href])

(***************************************************************************)
(* init and the identity transitions.                                      *)
(***************************************************************************)
\* init with a fault: no check of isInitialized.
initAgain(s, loggedInArg, userIdArg) ==
    LET s1 == IF loggedInArg # <<>>
              THEN [s EXCEPT !.isLoggedIn = loggedInArg[1]] ELSE s
        s2 == IF userIdArg # <<>>
              THEN [s1 EXCEPT !.derivUserId = userIdArg[1]]
              ELSE IF hasWindow /\ hasItem(s1, userIdKey) /\ getItem(s1, userIdKey) # ""
                   THEN [s1 EXCEPT !.derivUserId = getItem(s1, userIdKey),
                                   !.isLoggedIn = TRUE]
                   ELSE s1
        s3 == loadEvents(s2)
    IN IF variant = "A"
       THEN LET s4 == loadAttributionData(s3)
                s5 == IF options.autoTrack /\ hasWindow
                      THEN setupAutoTrackingA(s4) ELSE s4
            IN [trackCurrentPageViewA(s5) EXCEPT !.isInitialized = TRUE]
       ELSE LET s4 == IF options.autoTrack THEN setupAutoTrackingB(s3) ELSE s3
            IN [s4 EXCEPT !.isInitialized = TRUE]

\* init with a fault: variant A tracks the initial page only under autoTrack.
initTracksUnderAutoTrack(s, loggedInArg, userIdArg) ==
    IF s.isInitialized THEN s
    ELSE
      LET s1 == IF loggedInArg # <<>>
                THEN [s EXCEPT !.isLoggedIn = loggedInArg[1]] ELSE s
          s2 == IF userIdArg # <<>>
                THEN [s1 EXCEPT !.derivUserId = userIdArg[1]]
                ELSE IF hasWindow /\ hasItem(s1, userIdKey) /\ getItem(s1, userIdKey) # ""
                     THEN [s1 EXCEPT !.derivUserId = getItem(s1, userIdKey),
                                     !.isLoggedIn = TRUE]
                     ELSE s1
          s3 == loadEvents(s2)
      IN IF variant = "A"
         THEN LET s4 == loadAttributionData(s3) IN
              IF options.autoTrack /\ hasWindow
              THEN [trackCurrentPageViewA(setupAutoTrackingA(s4))
                       EXCEPT !.isInitialized = TRUE]
              ELSE [s4 EXCEPT !.isInitialized = TRUE]
         ELSE LET s4 == IF options.autoTrack THEN setupAutoTrackingB(s3) ELSE s3
              IN [s4 EXCEPT !.isInitialized = TRUE]

\* init with a fault: an isLoggedIn argument is not overridden by the stored
\* user id.
initArgumentWins(s, loggedInArg, userIdArg) ==
    IF s.isInitialized THEN s
    ELSE
      LET s1 == IF loggedInArg # <<>>
                THEN [s EXCEPT !.isLoggedIn = loggedInArg[1]] ELSE s
          s2 == IF userIdArg # <<>>
                THEN [s1 EXCEPT !.derivUserId = userIdArg[1]]
                ELSE IF hasWindow /\ hasItem(s1, userIdKey) /\ getItem(s1, userIdKey) # ""
                     THEN [s1 EXCEPT !.derivUserId = getItem(s1, userIdKey),
                                     !.isLoggedIn = IF loggedInArg # <<>>
                                                    THEN loggedInArg[1] ELSE TRUE]
                     ELSE s1
          s3 == loadEvents(s2)
      IN IF variant = "A"
         THEN LET s4 == loadAttributionData(s3)
                  s5 == IF options.autoTrack /\ hasWindow
                        THEN setupAutoTrackingA(s4) ELSE s4
              IN [trackCurrentPageViewA(s5) EXCEPT !.isInitialized = TRUE]
         ELSE LET s4 == IF options.autoTrack THEN setupAutoTrackingB(s3) ELSE s3
              IN [s4 EXCEPT !.isInitialized = TRUE]

init(s, loggedInArg, userIdArg) ==
    IF s.isInitialized THEN s
    ELSE
      LET s1 == IF loggedInArg # <<>>
                THEN [s EXCEPT !.isLoggedIn = loggedInArg[1]] ELSE s
          s2 == IF userIdArg # <<>>
                THEN [s1 EXCEPT !.derivUserId = userIdArg[1]]
                ELSE IF hasWindow /\ hasItem(s1, userIdKey) /\ getItem(s1, userIdKey) # ""
                     THEN [s1 EXCEPT !.derivUserId = getItem(s1, userIdKey),
                                     !.isLoggedIn = TRUE]
                     ELSE s1
          s3 == loadEvents(s2)
      IN IF variant = "A"
         THEN LET s4 == loadAttributionData(s3)
                  s5 == IF options.autoTrack /\ hasWindow
                        THEN setupAutoTrackingA(s4) ELSE s4
              IN [trackCurrentPageViewA(s5) EXCEPT !.isInitialized = TRUE]
         ELSE LET s4 == IF options.autoTrack THEN setupAutoTrackingB(s3) ELSE s3
              IN [s4 EXCEPT !.isInitialized = TRUE]

\* find(currentPageEventId) and, in variant A, the delivery of the event found
sendCurrentEvent(s) ==
    LET i == findIndex(s.events, s.currentPageEventId) IN
    IF variant = "A" /\ i # 0 THEN sendEventToBackend(s, s.events[i]) ELSE s

\* updateLoginState with a fault: the current event is amended and delivered
\* whether or not the flag has changed.
updateLoginStateUnconditional(s, loggedIn, userIdArg) ==
    LET s1 == [s EXCEPT !.isLoggedIn = loggedIn]
        s2 == IF userIdArg # <<>>
              THEN LET s2a == [s1 EXCEPT !.derivUserId = userIdArg[1]] IN
                   IF hasWindow THEN setItem(s2a, userIdKey, userIdArg[1]) ELSE s2a
              ELSE s1
    IN IF s2.thrown THEN s2
       ELSE IF s2.currentPageEventId # 0
            THEN sendCurrentEvent(
                     updateEventLoginState(s2, s2.currentPageEventId, loggedIn))
            ELSE s2

\* updateLoginState with a fault: it also does the prior-identifier
\* bookkeeping of recordSignup.
updateLoginStateWithBookkeeping(s, loggedIn, userIdArg) ==
    LET previousState == s.isLoggedIn
        s1 == [s EXCEPT !.isLoggedIn = loggedIn, !.oldUuid = s.uuid]
        s2 == IF userIdArg # <<>>
              THEN LET s2a == [s1 EXCEPT !.derivUserId = userIdArg[1]] IN
                   IF hasWindow THEN setItem(s2a, userIdKey, userIdArg[1]) ELSE s2a
              ELSE s1
    IN IF s2.thrown THEN s2
       ELSE IF variant = "A"
       THEN IF previousState # loggedIn /\ s2.currentPageEventId # 0
            THEN sendCurrentEvent(
                     updateEventLoginState(s2, s2.currentPageEventId, loggedIn))
            ELSE s2
       ELSE IF s2.currentPageEventId # 0
            THEN updateEventLoginState(s2, s2.currentPageEventId, loggedIn)
            ELSE s2

\* updateLoginState with a fault: the current event is not amended.
updateLoginStateFlagOnly(s, loggedIn, userIdArg) ==
    LET s1 == [s EXCEPT !.isLoggedIn = loggedIn] IN
    IF userIdArg # <<>>
    THEN LET s2a == [s1 EXCEPT !.derivUserId = userIdArg[1]] IN
         IF hasWindow THEN setItem(s2a, userIdKey, userIdArg[1]) ELSE s2a
    ELSE s1

updateLoginState(s, loggedIn, userIdArg) ==
    LET previousState == s.isLoggedIn
        s1 == [s EXCEPT !.isLoggedIn = loggedIn]
        s2 == IF userIdArg # <<>>
              THEN LET s2a == [s1 EXCEPT !.derivUserId = userIdArg[1]] IN
                   IF hasWindow THEN setItem(s2a, userIdKey, userIdArg[1]) ELSE s2a
              ELSE s1
    IN IF s2.thrown THEN s2
       ELSE IF variant = "A"
       THEN IF previousState # loggedIn /\ s2.currentPageEventId # 0
            THEN sendCurrentEvent(
                     updateEventLoginState(s2, s2.currentPageEventId, loggedIn))
            ELSE s2
       ELSE IF s2.currentPageEventId # 0
            THEN updateEventLoginState(s2, s2.currentPageEventId, loggedIn)
            ELSE s2

\* recordLogin with a fault: the log is reset before the current event is
\* amended and delivered.
recordLoginResetFirst(s, userId) ==
    LET s1 == [s EXCEPT !.isLoggedIn = TRUE, !.derivUserId = userId]
        s2 == IF hasWindow THEN setItem(s1, userIdKey, userId) ELSE s1
    IN IF s2.thrown THEN s2
       ELSE
         LET s3 == IF options.resetOnLogin THEN clearEvents(s2) ELSE s2
         IN IF s3.currentPageEventId # 0
            THEN sendCurrentEvent(
                     updateEventLoginState(s3, s3.currentPageEventId, TRUE))
            ELSE s3

\* recordLogin with a fault: a visitor already authenticated is left alone.
recordLoginOnce(s, userId) ==
    IF s.isLoggedIn THEN s
    ELSE
      LET s1 == [s EXCEPT !.isLoggedIn = TRUE, !.derivUserId = userId]
          s2 == IF hasWindow THEN setItem(s1, userIdKey, userId) ELSE s1
      IN IF s2.thrown THEN s2
         ELSE
           LET s3 == IF s2.currentPageEventId # 0
                     THEN sendCurrentEvent(
                              updateEventLoginState(s2, s2.currentPageEventId, TRUE))
                     ELSE s2
           IN IF options.resetOnLogin THEN clearEvents(s3) ELSE s3

recordLogin(s, userId) ==
    LET s1 == [s EXCEPT !.isLoggedIn = TRUE, !.derivUserId = userId]
        s2 == IF hasWindow THEN setItem(s1, userIdKey, userId) ELSE s1
    IN IF s2.thrown THEN s2
       ELSE
         LET s3 == IF s2.currentPageEventId # 0
                   THEN sendCurrentEvent(
                            updateEventLoginState(s2, s2.currentPageEventId, TRUE))
                   ELSE s2
         IN IF options.resetOnLogin THEN clearEvents(s3) ELSE s3

\* recordSignup with a fault: storage is written without asking whether there
\* is a window.
recordSignupUnguarded(s, userId) ==
    LET s1 == [s EXCEPT !.oldUuid = s.uuid, !.isLoggedIn = TRUE,
                        !.derivUserId = userId]
        s2 == setItem(s1, userIdKey, userId)
        s3 == IF ~s2.thrown /\ s2.oldUuid # 0
              THEN setItem(s2, oldUuidKey, s2.oldUuid) ELSE s2
    IN IF s3.thrown THEN s3
       ELSE
         LET s4 == IF s3.currentPageEventId # 0
                   THEN sendCurrentEvent(
                            updateEventLoginState(s3, s3.currentPageEventId, TRUE))
                   ELSE s3
         IN IF options.resetOnSignup THEN clearEvents(s4) ELSE s4

\* recordSignup with a fault: a prior identifier already set, in memory or in
\* storage, is kept (first writer wins).
recordSignupFirstWins(s, userId) ==
    LET set == s.oldUuid # 0 \/ (hasWindow /\ hasItem(s, oldUuidKey))
        s1 == [s EXCEPT !.oldUuid = IF set THEN @ ELSE s.uuid,
                        !.isLoggedIn = TRUE, !.derivUserId = userId]
        s2 == IF hasWindow THEN setItem(s1, userIdKey, userId) ELSE s1
        s3 == IF hasWindow /\ ~s2.thrown /\ ~set /\ s2.oldUuid # 0
              THEN setItem(s2, oldUuidKey, s2.oldUuid) ELSE s2
    IN IF s3.thrown THEN s3
       ELSE
         LET s4 == IF s3.currentPageEventId # 0
                   THEN sendCurrentEvent(
                            updateEventLoginState(s3, s3.currentPageEventId, TRUE))
                   ELSE s3
         IN IF options.resetOnSignup THEN clearEvents(s4) ELSE s4

recordSignup(s, userId) ==
    LET s1 == [s EXCEPT !.oldUuid = s.uuid, !.isLoggedIn = TRUE,
                        !.derivUserId = userId]
        s2 == IF hasWindow THEN setItem(s1, userIdKey, userId) ELSE s1
        s3 == IF hasWindow /\ ~s2.thrown /\ s2.oldUuid # 0
              THEN setItem(s2, oldUuidKey, s2.oldUuid) ELSE s2
    IN IF s3.thrown THEN s3
       ELSE
         LET s4 == IF s3.currentPageEventId # 0
                   THEN sendCurrentEvent(
                            updateEventLoginState(s3, s3.currentPageEventId, TRUE))
                   ELSE s3
         IN IF options.resetOnSignup THEN clearEvents(s4) ELSE s4

\* construct with a fault: the prior device identifier is restored from its
\* storage entry.
constructRestoresPrior(s) ==
    LET fresh == [s EXCEPT !.events = <<>>, !.isInitialized = FALSE,
                           !.derivUserId = "", !.isLoggedIn = FALSE,
                           !.oldUuid = IF hasWindow /\ hasItem(s, oldUuidKey)
                                       THEN getItem(s, oldUuidKey) ELSE 0,
                           !.lastTrackedUrl = NoUrl,
                           !.currentPageEventId = 0, !.currentAttribution = <<>>]
        withId == getOrCreateUUID(fresh)
    IN IF variant = "A" THEN loadAttributionData(withId) ELSE withId

\* The constructor of a new instance: fresh fields, then getOrCreateUUID and,
\* in variant A, loadAttributionData.
construct(s) ==
    LET fresh == [s EXCEPT !.events = <<>>, !.isInitialized = FALSE,
                           !.derivUserId = "", !.isLoggedIn = FALSE,
                           !.oldUuid = 0, !.lastTrackedUrl = NoUrl,
                           !.currentPageEventId = 0, !.currentAttribution = <<>>]
        withId == getOrCreateUUID(fresh)
    IN IF variant = "A" THEN loadAttributionData(withId) ELSE withId

(***************************************************************************)
(* Readers.  An event object is identified by its event_id: getEvents      *)
(* builds a new array whose elements are the log's own event objects, so   *)
(* the array is modelled as the sequence of their identities, and a read   *)
(* or write through an element goes to the object the log holds.           *)
(***************************************************************************)
Ref(event) == event.event_id

\* [...this.events]
getEvents(s) == [i \in 1..Len(s.events) |-> Ref(s.events[i])]

\* x || undefined
OrUndefined(x, falsy) == IF x = falsy THEN <<>> ELSE <<x>>

exportJourney(s) ==
    [uuid |-> s.uuid,
     deriv_user_id |-> OrUndefined(s.derivUserId, ""),
     old_uuid |-> OrUndefined(s.oldUuid, 0),
     events |-> getEvents(s)]

\* element[field] = value, by code that holds element from an array getEvents
\* returned: the element is the log's own object when the log still holds it.
writeThrough(s, element, field, value) ==
    LET i == findIndex(s.events, element) IN
    IF i # 0 THEN [s EXCEPT !.events[i][field] = value] ELSE s

(***************************************************************************)
(* Actions.                                                                *)
(***************************************************************************)
\* The sets of setItem calls of one operation (the first, the second, ...)
\* that may fail: at most as many as the fault allowance has left.
WriteIndexes == 1..4
FaultSets == {F \in SUBSET WriteIndexes : Cardinality(F) <= left.faults}

\* The step that ends in s, the result of a handler run from Cur(F).
Commit(s) ==
    /\ s.nextId - nextId <= left.ids
    /\ s.quotaErrors <= left.faults
    /\ events' = s.events
    /\ isInitialized' = s.isInitialized
    /\ uuid' = s.uuid
    /\ derivUserId' = s.derivUserId
    /\ isLoggedIn' = s.isLoggedIn
    /\ oldUuid' = s.oldUuid
    /\ lastTrackedUrl' = s.lastTrackedUrl
    /\ currentPageEventId' = s.currentPageEventId
    /\ currentAttribution' = s.currentAttribution
    /\ href' = s.href
    /\ cookie' = s.cookie
    /\ ls' = s.ls
    /\ hooks' = s.hooks
    /\ nextId' = s.nextId
    /\ UNCHANGED <<variant, hasWindow, options, world, now>>

\* The event_ids of the deliveries run s has issued
Issued(s) == [i \in 1..Len(s.fetched) |-> Ref(s.fetched[i].event)]

Spend(s) ==
    /\ left' = [left EXCEPT !.ids = @ - (s.nextId - nextId),
                            !.faults = @ - s.quotaErrors]
    /\ IF world.slow
       THEN /\ Len(inFlight) + Len(s.fetched) <= MaxInFlight
            /\ inFlight' = inFlight \o Issued(s)
       ELSE inFlight' = inFlight
    /\ UNCHANGED returned

\* A document is loaded (reload, link to another page): the module is
\* evaluated again and a new tracker instance is constructed.
PageLoad ==
    /\ hasWindow
    /\ left.loads > 0
    /\ \E url \in world.urls, ref \in world.referrers :
          LET s == construct([Cur({}) EXCEPT !.href = url, !.hooks = {}]) IN
          /\ referrer' = ref
          /\ Commit(s)
          /\ left' = [left EXCEPT !.loads = @ - 1, !.ids = @ - (s.nextId - nextId)]
          /\ inFlight' = <<>>
          /\ returned' = <<>>

CallInit ==
    \E loggedInArg \in Optional(BOOLEAN), userIdArg \in Optional(world.users),
       F \in FaultSets :
          LET s == init(Cur(F), loggedInArg, userIdArg) IN
          Commit(s) /\ Spend(s) /\ UNCHANGED referrer

CallTrackPageView ==
    \E url \in Optional(world.urls), F \in FaultSets :
          LET s == trackPageView(Cur(F), url) IN
          Commit(s) /\ Spend(s) /\ UNCHANGED referrer

PushState ==
    /\ hasWindow
    /\ \E url \in world.urls, F \in FaultSets :
          LET s == historyPushState(Cur(F), url) IN
          Commit(s) /\ Spend(s) /\ UNCHANGED referrer

ReplaceState ==
    /\ hasWindow
    /\ \E url \in world.urls, F \in FaultSets :
          LET s == historyReplaceState(Cur(F), url) IN
          Commit(s) /\ Spend(s) /\ UNCHANGED referrer

PopState ==
    /\ hasWindow
    /\ \E url \in world.urls \ {href}, F \in FaultSets :
          LET s == dispatchPopState(Cur(F), url) IN
          Commit(s) /\ Spend(s) /\ UNCHANGED referrer

CallRecordLogin ==
    \E userId \in world.users, F \in FaultSets :
          LET s == recordLogin(Cur(F), userId) IN
          Commit(s) /\ Spend(s) /\ UNCHANGED referrer

CallRecordSignup ==
    \E userId \in world.users, F \in FaultSets :
          LET s == recordSignup(Cur(F), userId) IN
          Commit(s) /\ Spend(s) /\ UNCHANGED referrer

CallUpdateLoginState ==
    \E loggedIn \in BOOLEAN, userIdArg \in Optional(world.users), F \in FaultSets :
          LET s == updateLoginState(Cur(F), loggedIn, userIdArg) IN
          Commit(s) /\ Spend(s) /\ UNCHANGED referrer

CallClearEvents ==
    LET s == clearEvents(Cur({})) IN
    Commit(s) /\ Spend(s) /\ UNCHANGED referrer

\* The clock advances by a minute.
Tick ==
    /\ left.ticks > 0
    /\ now' = now + MsPerMinute
    /\ left' = [left EXCEPT !.ticks = @ - 1]
    /\ UNCHANGED <<variant, hasWindow, options, world, events, isInitialized, uuid,
                   derivUserId, isLoggedIn, oldUuid, lastTrackedUrl,
                   currentPageEventId, currentAttribution, href, referrer,
                   cookie, ls, hooks, nextId, inFlight, returned>>

\* The device cookie expires or is cleared by the visitor.
CookieCleared ==
    /\ hasWindow
    /\ left.clears > 0
    /\ cookie # 0
    /\ cookie' = 0
    /\ left' = [left EXCEPT !.clears = @ - 1]
    /\ UNCHANGED <<variant, hasWindow, options, world, events, isInitialized, uuid,
                   derivUserId, isLoggedIn, oldUuid, lastTrackedUrl,
                   currentPageEventId, currentAttribution, href, referrer,
                   ls, hooks, now, nextId, inFlight, returned>>

(***************************************************************************)
(* Configurations and the initial state: a tracker just constructed by the *)
(* first page load of a browser with no cookie and an empty localStorage.  *)
(***************************************************************************)
Options(resetOnLogin, resetOnSignup, autoTrack, trackHashChange, trackHistoryChange) ==
    [maxEvents |-> MaxEvents,
     resetOnLogin |-> resetOnLogin,
     resetOnSignup |-> resetOnSignup,
     autoTrack |-> autoTrack,
     trackHashChange |-> trackHashChange,
     trackHistoryChange |-> trackHistoryChange,
     attributionExpiry |-> ExpiryMinutes]

DefaultOptions == Options(TRUE, TRUE, TRUE, TRUE, TRUE)
NoResetOptions == Options(FALSE, FALSE, TRUE, TRUE, TRUE)
PopStateOnlyOptions == Options(FALSE, TRUE, TRUE, FALSE, FALSE)
ManualOptions == Options(TRUE, FALSE, FALSE, TRUE, TRUE)

Allowance(ids, loads, clears, faults, ticks) ==
    [ids |-> ids, loads |-> loads, clears |-> clears, faults |-> faults,
     ticks |-> ticks]

\* slow: a network on which a delivery is still in flight when the operation
\* that issued it has returned, and completes at some later moment; on a
\* network that is not slow every delivery has completed before the next
\* operation starts.
World(urls, users, referrers) ==
    [urls |-> urls, users |-> users, referrers |-> referrers, slow |-> FALSE]
Slow(w) == [w EXCEPT !.slow = TRUE]

\* stored: the number of events earlier page loads have left in localStorage
Scenario(o, stored, w, l) ==
    [options |-> o, stored |-> stored, world |-> w, left |-> l]

\* The behaviours explored.  Each scenario fixes a configuration, what the
\* page and its visitor do, and what the environment does besides: nothing,
\* or page reloads and a cleared cookie, or failing storage writes, or time
\* passing.
Quiet == Allowance(MaxNewIds, 0, 0, 0, 0)
Reloads == Allowance(MaxNewIds, MaxPageLoads, 0, 0, 0)
ReloadsCleared == Allowance(MaxNewIds, MaxPageLoads, MaxCookieClears, 0, 0)
Faults == Allowance(MaxNewIds, 0, 0, MaxQuotaErrors, 0)
Ageing == Allowance(MaxNewIds - 1, MaxPageLoads, 0, 0, MaxTicks)
\* A visitor who comes back with more than KeepOnQuota events in storage and
\* a store that is full: one more event, the write and its retry may fail.
LongLog == KeepOnQuota + 1
FullStore == Allowance(1, 0, 0, MaxQuotaErrors + 1, 0)

Scenarios(v) ==
    {Scenario(DefaultOptions, 0, World(Urls, {"u1"}, {RefNone}), Quiet),
     Scenario(NoResetOptions, 0, World({UrlHome, UrlGoogle, UrlCheckout}, {"u1"}, {RefNone}), Quiet),
     Scenario(PopStateOnlyOptions, 0, World({UrlHome, UrlCheckout, UrlClick}, {"u2"}, {RefNone}), Quiet),
     Scenario(ManualOptions, 0, World({UrlHome, UrlGoogle, UrlClick}, {"u1"}, {RefNone}), Quiet),
     Scenario(DefaultOptions, 0, World({UrlGoogle, UrlCheckout}, {"u1"}, {RefExternal}), ReloadsCleared),
     Scenario(NoResetOptions, 0, World({UrlHome, UrlCheckout}, {"u2"}, {RefExternal, RefOtherPort}), Reloads),
     Scenario(DefaultOptions, 0, World({UrlHome, UrlGoogle}, {"u1"}, {RefNone}), Faults),
     Scenario(NoResetOptions, 0, World({UrlHome, UrlClick}, {"u1"}, {RefNone}), Faults),
     Scenario([NoResetOptions EXCEPT !.maxEvents = LongLog], LongLog,
              World({UrlHome, UrlCheckout}, {"u1"}, {RefNone}), FullStore)}
    \cup
    (IF v = "A"
     THEN {Scenario(DefaultOptions, 0, World({UrlHome, UrlGoogle}, {"u1"}, {RefNone}), Ageing)}
     ELSE {})

\* The log that n earlier navigations between the home page and the
\* checkout page, by an anonymous visitor with device identifier 1, have
\* left in storage: the events trackCurrentPageView builds for them.
StoredEvent(i) ==
    LET url == IF i % 2 = 1 THEN UrlHome ELSE UrlCheckout
        landing == [k \in {"landing_page"} |-> url.pathname]
    IN [url |-> url, timestamp |-> MsPerMinute, referrer |-> RefNone,
        attribution |-> IF variant = "A"
                        THEN With(landing, "attribution_timestamp", MsPerMinute)
                        ELSE landing,
        uuid |-> 1, is_loggedin |-> FALSE, event_id |-> i + 1]

StoredLog(n) == [i \in 1..n |-> StoredEvent(i)]

\* The tracker of the first page load in scenario sc.
Start(sc) ==
    /\ options = sc.options
    /\ world = sc.world
    /\ left = sc.left
    /\ ls = IF sc.stored > 0 /\ hasWindow
            THEN [k \in {storageKey} |-> JSONstringify(StoredLog(sc.stored))]
            ELSE <<>>
    /\ nextId = IF sc.stored > 0 /\ hasWindow THEN sc.stored + 2 ELSE 2
    /\ events = <<>>
    /\ isInitialized = FALSE
    /\ uuid = 1
    /\ derivUserId = ""
    /\ isLoggedIn = FALSE
    /\ oldUuid = 0
    /\ lastTrackedUrl = NoUrl
    /\ currentPageEventId = 0
    /\ currentAttribution = <<>>
    /\ href = IF hasWindow THEN UrlHome ELSE NoUrl
    /\ referrer = RefNone
    /\ cookie = IF hasWindow THEN 1 ELSE 0
    /\ hooks = {}
    /\ now = MsPerMinute
    /\ inFlight = <<>>
    /\ returned = <<>>

Init ==
    /\ variant \in {"A", "B"}
    /\ hasWindow \in BOOLEAN
    /\ \E sc \in Scenarios(variant) : Start(sc)

Next ==
    \/ PageLoad
    \/ CallInit
    \/ CallTrackPageView
    \/ PushState
    \/ ReplaceState
    \/ PopState
    \/ CallRecordLogin
    \/ CallRecordSignup
    \/ CallUpdateLoginState
    \/ CallClearEvents
    \/ Tick
    \/ CookieCleared

Spec == Init /\ [][Next]_vars

\* A delivery in flight completes, with whatever outcome, at whatever moment.
DeliveryCompletes ==
    /\ inFlight # <<>>
    /\ \E i \in 1..Len(inFlight), outcome \in Outcomes :
          LET s == sendEventToBackendResumed(Cur({}), inFlight[i], outcome) IN
          /\ Commit(s)
          /\ inFlight' = SubSeq(inFlight, 1, i - 1)
                            \o SubSeq(inFlight, i + 1, Len(inFlight))
          /\ UNCHANGED <<referrer, left, returned>>

\* Variant A on a slow network: page sessions with navigations and identity
\* operations while deliveries are in flight, and a page reload, or a cleared
\* cookie and time passing.
Reloading == Allowance(MaxNewIds - 1, MaxPageLoads, 0, 0, 0)
Lasting == Allowance(MaxNewIds - 1, 0, MaxCookieClears, 0, MaxTicks - 1)

DeliveryScenarios ==
    {Scenario(DefaultOptions, 0, Slow(World({UrlHome, UrlGoogle}, {"u1"}, {RefNone})), Reloading),
     Scenario(NoResetOptions, 0, Slow(World({UrlHome, UrlCheckout}, {"u1"}, {RefNone})), Lasting)}

InitDelivery ==
    /\ variant = "A"
    /\ hasWindow = TRUE
    /\ \E sc \in DeliveryScenarios : Start(sc)

NextDelivery == Next \/ DeliveryCompletes

SpecDelivery == InitDelivery /\ [][NextDelivery]_vars

\* The page's own code reads the log.
CallGetEvents ==
    /\ returned' = getEvents(Cur({}))
    /\ UNCHANGED <<variant, hasWindow, options, world, left, inFlight, events,
                   isInitialized, uuid, derivUserId, isLoggedIn, oldUuid,
                   lastTrackedUrl, currentPageEventId, currentAttribution, href,
                   referrer, cookie, ls, hooks, now, nextId>>

CallExportJourney ==
    /\ returned' = exportJourney(Cur({})).events
    /\ UNCHANGED <<variant, hasWindow, options, world, left, inFlight, events,
                   isInitialized, uuid, derivUserId, isLoggedIn, oldUuid,
                   lastTrackedUrl, currentPageEventId, currentAttribution, href,
                   referrer, cookie, ls, hooks, now, nextId>>

\* The page's code changes the array it holds: pop(), or push() of an object
\* of its own (0: not an event of the tracker; one such object at most).
CallerChangesArray ==
    /\ \/ returned # <<>> /\ returned' = SubSeq(returned, 1, Len(returned) - 1)
       \/ /\ \A i \in 1..Len(returned) : returned[i] # 0
          /\ returned' = Append(returned, 0)
    /\ UNCHANGED <<variant, hasWindow, options, world, left, inFlight, events,
                   isInitialized, uuid, derivUserId, isLoggedIn, oldUuid,
                   lastTrackedUrl, currentPageEventId, currentAttribution, href,
                   referrer, cookie, ls, hooks, now, nextId>>

\* The page's code assigns to a field of an element of the array it holds.
CallerWritesEvent ==
    \E i \in 1..Len(returned), value \in BOOLEAN :
        LET s == writeThrough(Cur({}), returned[i], "is_loggedin", value) IN
        /\ Commit(s)
        /\ UNCHANGED <<referrer, left, inFlight, returned>>

\* Both variants in a browser, with page code that reads the log and changes
\* what it was given.
CallerScenarios ==
    {Scenario(NoResetOptions, 0, World({UrlHome, UrlCheckout}, {"u1"}, {RefNone}),
              Allowance(MaxNewIds - 1, 0, 0, 0, 0)),
     Scenario(DefaultOptions, 0, World({UrlHome, UrlGoogle}, {"u1"}, {RefNone}),
              Allowance(MaxNewIds - 2, MaxPageLoads, MaxCookieClears, 0, MaxTicks - 1))}

InitCaller ==
    /\ variant \in {"A", "B"}
    /\ hasWindow = TRUE
    /\ \E sc \in CallerScenarios : Start(sc)

NextCaller ==
    \/ Next
    \/ CallGetEvents
    \/ CallExportJourney
    \/ CallerChangesArray
    \/ CallerWritesEvent

SpecCaller == InitCaller /\ [][NextCaller]_vars

\* The page calls init() before anything else on every tracker instance, and
\* no storage write fails: the scenarios of Spec that allow no storage fault,
\* with every other operation held back until init has run.
InitFirstScenarios(v) == {sc \in Scenarios(v) : sc.left.faults = 0}

InitInitFirst ==
    /\ variant \in {"A", "B"}
    /\ hasWindow \in BOOLEAN
    /\ \E sc \in InitFirstScenarios(variant) : Start(sc)

AfterInit ==
    \/ isInitialized /\ CallTrackPageView
    \/ isInitialized /\ PushState
    \/ isInitialized /\ ReplaceState
    \/ isInitialized /\ PopState
    \/ isInitialized /\ CallRecordLogin
    \/ isInitialized /\ CallRecordSignup
    \/ isInitialized /\ CallUpdateLoginState
    \/ isInitialized /\ CallClearEvents

NextInitFirst ==
    \/ PageLoad
    \/ CallInit
    \/ AfterInit
    \/ Tick
    \/ CookieCleared

SpecInitFirst == InitInitFirst /\ [][NextInitFirst]_vars

(***************************************************************************)
(* Properties.  What an operation does is stated of the operation run from *)
(* the current state, Cur(F), for every input and every set F of failing   *)
(* storage writes.                                                         *)
(***************************************************************************)
AnyFaults == SUBSET WriteIndexes

\* The event trackCurrentPageView builds when the page is at url.
NewEvent(url) ==
    LET at == [Cur({}) EXCEPT !.href = url] IN
    PageViewEvent(at, parseAttributionData(at), generateUUID(at))

\* The setItem of the event log under way in run t failed at least once.
SaveFailed(t) ==
    \E i \in 1..Len(t.io) :
        t.io[i].type = "setItem" /\ t.io[i].key = storageKey /\ ~t.io[i].ok

\* C1: in both variants, in every reachable state, the in-memory event log
\* holds at most options.maxEvents events.
C1_LogNeverExceedsMaxEvents == Len(events) <= options.maxEvents

\* A full log whose newest event is the last one built and whose oldest event
\* is not the first one ever logged: an append has evicted an event.
C1_FullLogAfterEviction ==
    /\ Len(events) = options.maxEvents
    /\ events[Len(events)].event_id = nextId - 1
    /\ events[1].event_id > 2

\* C2 as stated: when an append makes the log exceed maxEvents, the log
\* afterwards is exactly the last maxEvents events of the previous log
\* followed by the new event.
C2_OverflowKeepsLastMaxEvents ==
    \A url \in Urls, F \in AnyFaults :
        Len(events) + 1 > options.maxEvents
        => addEvent(Cur(F), NewEvent(url)).events
              = LastN(Append(events, NewEvent(url)), options.maxEvents)

\* C2 amended: when an append makes the log exceed maxEvents, the log
\* afterwards is exactly the last maxEvents events of the previous log
\* followed by the new event, oldest evicted first; except that when writing
\* that log to storage fails for lack of quota and it is longer than 10
\* events, only its last 10 events remain.
C2_OverflowKeepsLastMaxEventsOrTen ==
    \A url \in Urls, F \in AnyFaults :
        Len(events) + 1 > options.maxEvents
        => LET t == addEvent(Cur(F), NewEvent(url))
               kept == LastN(Append(events, NewEvent(url)), options.maxEvents)
           IN t.events = IF SaveFailed(t) /\ Len(kept) > KeepOnQuota
                         THEN LastN(kept, KeepOnQuota)
                         ELSE kept

\* An append has overflowed a limit above 10 while the store was full: the
\* newest event is in the log and 10 events remain.
C2_OverflowOnFullStore ==
    /\ options.maxEvents > KeepOnQuota
    /\ Len(events) = KeepOnQuota
    /\ events[Len(events)].event_id = nextId - 1
    /\ events[1].event_id = nextId - KeepOnQuota

\* Where the current event (currentPageEventId) is in the log, 0 when it is
\* not there.
CurrentIndex == findIndex(events, currentPageEventId)

\* The log with the authenticated flag of the current event set.
Amended == [events EXCEPT ![CurrentIndex].is_loggedin = TRUE]

\* C3 as stated: recordLogin with resetOnLogin = true and recordSignup with
\* resetOnSignup = true leave the event log empty and remove its persisted
\* copy, whatever the log held before.
C3_ResetLeavesLogEmpty ==
    \A userId \in Users, F \in AnyFaults :
        /\ options.resetOnLogin
           => LET t == recordLogin(Cur(F), userId)
              IN t.events = <<>> /\ ~hasItem(t, storageKey)
        /\ options.resetOnSignup
           => LET t == recordSignup(Cur(F), userId)
              IN t.events = <<>> /\ ~hasItem(t, storageKey)

\* What recordLogin / recordSignup without reset leave in the log when the
\* log is amended as a whole: the previous events, the current one flagged.
Retained(t) ==
    IF ~t.thrown /\ CurrentIndex # 0 THEN Amended ELSE events

\* C4 as stated: recordLogin with resetOnLogin = false and recordSignup with
\* resetOnSignup = false retain every previously logged event in order, and
\* change no event field but is_loggedin of the current event, set to true.
C4_NoResetRetainsLog ==
    \A userId \in Users, F \in AnyFaults :
        /\ ~options.resetOnLogin
           => LET t == recordLogin(Cur(F), userId) IN t.events = Retained(t)
        /\ ~options.resetOnSignup
           => LET t == recordSignup(Cur(F), userId) IN t.events = Retained(t)

\* What remains of a log after the operation run t wrote it, or failed to.
AfterSave(t, log) ==
    IF SaveFailed(t) /\ Len(log) > KeepOnQuota THEN LastN(log, KeepOnQuota) ELSE log

\* C4 amended: recordLogin with resetOnLogin = false and recordSignup with
\* resetOnSignup = false change no event field but is_loggedin of the
\* current event, set to true, and retain every previously logged event in
\* order; except that when writing the amended log to storage fails for lack
\* of quota and the log is longer than 10 events, only its last 10 remain.
C4_NoResetRetainsLogOrTen ==
    \A userId \in Users, F \in AnyFaults :
        /\ ~options.resetOnLogin
           => LET t == recordLogin(Cur(F), userId)
              IN t.events = AfterSave(t, Retained(t))
        /\ ~options.resetOnSignup
           => LET t == recordSignup(Cur(F), userId)
              IN t.events = AfterSave(t, Retained(t))

\* recordLogin without reset is called with two events in the log, the
\* second the current one and not yet flagged: both stay, the second is
\* flagged, the first is as it was.
C4_LoginAmendsCurrentEventOnly ==
    /\ ~options.resetOnLogin
    /\ Len(events) = 2
    /\ CurrentIndex = 2
    /\ ~events[2].is_loggedin
    /\ LET t == recordLogin(Cur({}), "u1")
       IN /\ Len(t.events) = 2
          /\ t.events[1] = events[1]
          /\ t.events[2] = [events[2] EXCEPT !.is_loggedin = TRUE]

\* The positions in the record of run t at which a delivery is initiated
\* (fetch is called) and at which the persisted log is removed.
Deliveries(t) == {i \in 1..Len(t.io) : t.io[i].type = "fetch"}
Resets(t) ==
    {i \in 1..Len(t.io) : t.io[i].type = "removeItem" /\ t.io[i].key = storageKey}

\* C5: in variant A, when recordLogin is called with resetOnLogin = true
\* while the current event is in the log, the delivery of that event with
\* is_loggedin already true is initiated before the log is reset: a call that
\* returns delivers exactly the amended event, then resets the log, and a
\* call cut short by a failing write of the user id does neither.
C5_DeliveryOfAmendedEventBeforeReset ==
    (variant = "A" /\ options.resetOnLogin /\ CurrentIndex # 0)
    => \A userId \in Users, F \in AnyFaults :
          LET t == recordLogin(Cur(F), userId) IN
          IF t.thrown
          THEN Deliveries(t) = {} /\ Resets(t) = {} /\ t.events = events
          ELSE /\ Len(t.fetched) = 1
               /\ t.fetched[1].event = Amended[CurrentIndex]
               /\ t.fetched[1].deriv_user_id = userId
               /\ Cardinality(Deliveries(t)) = 1
               /\ Cardinality(Resets(t)) = 1
               /\ \A d \in Deliveries(t), r \in Resets(t) : d < r
               /\ t.events = <<>>

\* recordLogin with reset is called in variant A while the current event is
\* in the log and not yet flagged: the event delivered carries the flag and
\* the log is empty afterwards.
C5_LoginDeliversThenResets ==
    /\ variant = "A"
    /\ options.resetOnLogin
    /\ CurrentIndex # 0
    /\ ~events[CurrentIndex].is_loggedin
    /\ LET t == recordLogin(Cur({}), "u1")
       IN /\ t.fetched[1].event.is_loggedin
          /\ t.fetched[1].event.event_id = currentPageEventId
          /\ t.events = <<>>

\* A navigation writes to storage at most three times (the attribution
\* record, the log, the log again after a failure); any of them may fail.
NavigationFaults == SUBSET (1..3)

\* The events run t has added to the log: identifiers are fresh, so these are
\* the events of t's log whose identifier was not yet handed out before.
NewEvents(t) == {i \in 1..Len(t.events) : t.events[i].event_id >= nextId}
Logged(t) == Cardinality(NewEvents(t))
Last(seq) == seq[Len(seq)]

\* The marketing fields an attribution record carries, and what the extractor
\* yields for the page at url.
MarketingFields(attribution) == DOMAIN attribution \cap attributionParams
Extracted(url) == parseAttributionData([Cur({}) EXCEPT !.href = url])

\* A navigation to url, as the tracker is told of it in every configuration:
\* the page calls trackPageView(url).
Visit(url, F) == trackPageView(Cur(F), <<url>>)

\* C6 as stated: in variant A, for every navigation whose URL carries none of
\* the 10 marketing fields, the attribution of the newly logged event is the
\* last valid (non-expired) attribution with only landing_page replaced by
\* the current path (the extracted record when there is no valid one).
C6_InheritsLastValidAttribution ==
    (variant = "A" /\ hasWindow)
    => \A url \in Urls, F \in NavigationFaults :
          (MarketingFields(Extracted(url)) = {} /\ url # lastTrackedUrl)
          => LET t == Visit(url, F) IN
             /\ Logged(t) = 1
             /\ Last(t.events).attribution
                   = IF DOMAIN currentAttribution # {} /\ NotExpired(currentAttribution)
                     THEN With(currentAttribution, "landing_page", url.pathname)
                     ELSE Extracted(url)

\* C7 as stated: in variant A, for every navigation whose URL contains at
\* least one of the 10 marketing fields, the event's attribution is exactly
\* the extracted record, and CurrentAttribution and its persisted copy are
\* overwritten with that record.
C7_NewAttributionOverwrites ==
    (variant = "A" /\ hasWindow)
    => \A url \in Urls, F \in NavigationFaults :
          (MarketingFields(Extracted(url)) # {} /\ url # lastTrackedUrl)
          => LET t == Visit(url, F) IN
             /\ Logged(t) = 1
             /\ Last(t.events).attribution = Extracted(url)
             /\ t.currentAttribution = Extracted(url)
             /\ hasItem(t, attributionKey)
             /\ JSONparse(getItem(t, attributionKey)) = Extracted(url)

\* The write of the attribution record under way in run t failed.
AttributionSaveFailed(t) ==
    \E i \in 1..Len(t.io) :
        t.io[i].type = "setItem" /\ t.io[i].key = attributionKey /\ ~t.io[i].ok

\* C7 amended: in variant A, for every navigation whose URL contains at least
\* one of the 10 marketing fields, the event's attribution is exactly the
\* extracted record and CurrentAttribution is overwritten with it; its
\* persisted copy is overwritten with it too unless the write to storage
\* fails, and then the persisted copy is left as it was.
C7_NewAttributionOverwritesUnlessWriteFails ==
    (variant = "A" /\ hasWindow)
    => \A url \in Urls, F \in NavigationFaults :
          (MarketingFields(Extracted(url)) # {} /\ url # lastTrackedUrl)
          => LET t == Visit(url, F) IN
             /\ Logged(t) = 1
             /\ Last(t.events).attribution = Extracted(url)
             /\ t.currentAttribution = Extracted(url)
             /\ IF AttributionSaveFailed(t)
                THEN /\ hasItem(t, attributionKey) = hasItem(Cur(F), attributionKey)
                     /\ hasItem(t, attributionKey)
                        => getItem(t, attributionKey) = getItem(Cur(F), attributionKey)
                ELSE /\ hasItem(t, attributionKey)
                     /\ JSONparse(getItem(t, attributionKey)) = Extracted(url)

\* A visitor who came through one campaign follows the link of another: the
\* attribution held names a click id and no source, the URL visited names a
\* source and no click id.
C7_SecondCampaignReplacesFirst ==
    /\ variant = "A"
    /\ hasWindow
    /\ "gclid" \in DOMAIN currentAttribution
    /\ UrlGoogle # lastTrackedUrl
    /\ LET t == Visit(UrlGoogle, {}) IN
       /\ "gclid" \notin DOMAIN Last(t.events).attribution
       /\ Last(t.events).attribution["utm_source"] = "google"
       /\ JSONparse(getItem(t, attributionKey)) = t.currentAttribution

\* Policy B's condition for skipping the page at url, read off the claim: the
\* log is not empty, url is the URL of its last event, and no marketing field
\* extracted from url differs from that event's attribution.
SkipB(log, url) ==
    /\ log # <<>>
    /\ Last(log).url = url
    /\ \A key \in MarketingFields(Extracted(url)) :
          /\ key \in DOMAIN Last(log).attribution
          /\ Last(log).attribution[key] = Extracted(url)[key]

OneUnlessSkipped(t, log, url) == Logged(t) = IF SkipB(log, url) THEN 0 ELSE 1

\* The log init starts from: the persisted one when there is one.
LoadedLog == loadEvents(Cur({})).events

\* C8 as stated: in variant B, a navigation appends no event if and only if
\* the log is non-empty, the current URL is the URL of the last logged event
\* and no extracted marketing field differs from that event's attribution;
\* in every other case exactly one event is appended.  The navigations are a
\* manual trackPageView, the initial load under autoTrack, and the signals
\* the installed listeners receive.
C8_SkipsOnlyRepeatOfLastEvent ==
    (variant = "B" /\ hasWindow)
    => \A F \in NavigationFaults :
          /\ OneUnlessSkipped(trackPageView(Cur(F), <<>>), events, href)
          /\ (~isInitialized /\ options.autoTrack)
             => OneUnlessSkipped(init(Cur(F), <<>>, <<>>), LoadedLog, href)
          /\ \A url \in Urls :
                /\ OneUnlessSkipped(trackPageView(Cur(F), <<url>>), events, url)
                /\ "pushState" \in hooks
                   => OneUnlessSkipped(historyPushState(Cur(F), url), events, url)
                /\ "replaceState" \in hooks
                   => OneUnlessSkipped(historyReplaceState(Cur(F), url), events, url)
                /\ "popstate" \in hooks
                   => OneUnlessSkipped(dispatchPopState(Cur(F), url), events, url)

\* What a listener of variant B logs for a signal at url: nothing when url is
\* the last tracked URL, and otherwise what the policy decides.
OneUnlessTracked(t, log, url) ==
    Logged(t) = IF url = lastTrackedUrl \/ SkipB(log, url) THEN 0 ELSE 1

\* C8 amended: in variant B, a manual trackPageView and the initial load
\* under autoTrack append no event if and only if the log is non-empty, the
\* current URL is the URL of the last logged event and no extracted marketing
\* field differs from that event's attribution, and exactly one event in
\* every other case; a signal received by an installed listener (pushState,
\* replaceState, popstate, hashchange) does the same when its URL differs
\* from the last tracked URL, and appends nothing when its URL is the last
\* tracked URL, whatever the log holds.
C8_SkipsRepeatOfLastEventOrTrackedUrl ==
    (variant = "B" /\ hasWindow)
    => \A F \in NavigationFaults :
          /\ OneUnlessSkipped(trackPageView(Cur(F), <<>>), events, href)
          /\ (~isInitialized /\ options.autoTrack)
             => OneUnlessSkipped(init(Cur(F), <<>>, <<>>), LoadedLog, href)
          /\ \A url \in Urls :
                /\ OneUnlessSkipped(trackPageView(Cur(F), <<url>>), events, url)
                /\ "pushState" \in hooks
                   => OneUnlessTracked(historyPushState(Cur(F), url), events, url)
                /\ "replaceState" \in hooks
                   => OneUnlessTracked(historyReplaceState(Cur(F), url), events, url)
                /\ "popstate" \in hooks
                   => OneUnlessTracked(dispatchPopState(Cur(F), url), events, url)

\* Variant B with its listeners installed, the page at the URL of the last
\* logged event: a repeated trackPageView logs nothing, a trackPageView of the
\* checkout page logs one event, and so does the pushState of it.
C8_RepeatSkippedChangeLogged ==
    /\ variant = "B"
    /\ "pushState" \in hooks
    /\ events # <<>>
    /\ Last(events).url = href
    /\ href # UrlCheckout
    /\ Logged(trackPageView(Cur({}), <<>>)) = 0
    /\ Logged(trackPageView(Cur({}), <<UrlCheckout>>)) = 1
    /\ Logged(historyPushState(Cur({}), UrlCheckout)) = 1

\* One event or none, as url differs from the last tracked URL or not.
OneIfUrlChanged(t, url) ==
    /\ Logged(t) = IF url # lastTrackedUrl THEN 1 ELSE 0
    /\ Logged(t) = 1 => Last(t.events).url = url

\* C9: in variant A, for every navigation trigger (the initial load at init,
\* an intercepted pushState or replaceState, hashchange, popstate, a manual
\* trackPageView) an event is appended if and only if the current full URL
\* differs from the last tracked URL, whatever the attribution, the login
\* state and the log are.
C9_LoggedIffUrlDiffersFromLastTracked ==
    (variant = "A" /\ hasWindow)
    => \A F \in NavigationFaults :
          /\ OneIfUrlChanged(trackPageView(Cur(F), <<>>), href)
          /\ ~isInitialized
             => \A loggedInArg \in Optional(BOOLEAN), userIdArg \in Optional(Users) :
                   OneIfUrlChanged(init(Cur(F), loggedInArg, userIdArg), href)
          /\ \A url \in Urls :
                /\ OneIfUrlChanged(trackPageView(Cur(F), <<url>>), url)
                /\ "pushState" \in hooks
                   => OneIfUrlChanged(historyPushState(Cur(F), url), url)
                /\ "replaceState" \in hooks
                   => OneIfUrlChanged(historyReplaceState(Cur(F), url), url)
                /\ "popstate" \in hooks
                   => OneIfUrlChanged(dispatchPopState(Cur(F), url), url)

\* Variant A after a login that reset the log, the visitor signed in, the
\* attribution of a campaign held: the page of the last tracked URL is not
\* logged again though the log is empty, the checkout page is.
C9_EmptyLogSameUrlSkipped ==
    /\ variant = "A"
    /\ "pushState" \in hooks
    /\ events = <<>>
    /\ isLoggedIn
    /\ DOMAIN currentAttribution # {}
    /\ lastTrackedUrl = href
    /\ href # UrlCheckout
    /\ Logged(historyPushState(Cur({}), href)) = 0
    /\ Logged(historyPushState(Cur({}), UrlCheckout)) = 1

\* C10: in both variants, one state change reported through several sources
\* is logged once: a manual trackPageView(url) whose pushState is intercepted,
\* and a URL change that fires both popstate and hashchange, append exactly
\* one event when url differs from the last tracked URL, and never two.
C10_OneEventPerStateChange ==
    hasWindow
    => \A url \in Urls, F \in NavigationFaults :
          /\ "pushState" \in hooks
             => LET t == trackPageView(Cur(F), <<url>>) IN
                /\ Logged(t) <= 1
                /\ url # lastTrackedUrl => Logged(t) = 1
          /\ ({"popstate", "hashchange"} \subseteq hooks /\ url.hash # href.hash)
             => LET t == dispatchPopState(Cur(F), url) IN
                /\ Logged(t) <= 1
                /\ url # lastTrackedUrl => Logged(t) = 1

\* The listeners are installed and one event is in the log; the page moves to a URL with another fragment, which fires popstate
\* and hashchange, or is moved by trackPageView(url), which the pushState
\* hook reports too: the log grows by one event.
C10_TwoSignalsOneEvent ==
    /\ {"pushState", "popstate", "hashchange"} \subseteq hooks
    /\ Len(events) = 1
    /\ href = UrlHome
    /\ lastTrackedUrl = UrlHome
    /\ Len(dispatchPopState(Cur({}), UrlClick).events) = 2
    /\ Len(trackPageView(Cur({}), <<UrlClick>>).events) = 2


\* The attribution record held in memory is older than the expiry window.
HeldExpired ==
    /\ DOMAIN currentAttribution # {}
    /\ "attribution_timestamp" \in DOMAIN currentAttribution
    /\ ~NotExpired(currentAttribution)

\* C11 as stated: in variant A, in every reachable state, a long-lived page
\* session in which the expiry window passes without a reload included, a
\* CurrentAttribution older than the window is discarded and is not attached
\* to a newly logged event.
C11_ExpiredAttributionNeverAttached ==
    (variant = "A" /\ hasWindow /\ HeldExpired)
    => \A url \in Urls, F \in NavigationFaults :
          (MarketingFields(Extracted(url)) = {} /\ url # lastTrackedUrl)
          => LET t == Visit(url, F) IN
             /\ Logged(t) = 1
             /\ Last(t.events).attribution = Extracted(url)
             /\ t.currentAttribution = <<>>


\* The attribution record in storage, and its age in milliseconds.
StoredAttribution == JSONparse(ls[attributionKey])
StoredAge == now - StoredAttribution["attribution_timestamp"]

\* A page load at url: the constructor of the new instance.
Constructed(url) == construct([Cur({}) EXCEPT !.href = url, !.hooks = {}])

\* C12: in variant A, loading a persisted attribution record whose age
\* exceeds attributionExpiry minutes loads nothing and removes the storage
\* entry (a newly constructed instance holds no attribution); a record within
\* the window becomes CurrentAttribution and its entry stays.
C12_ExpiredRecordAbsentAndRemoved ==
    (variant = "A" /\ hasWindow /\ attributionKey \in DOMAIN ls)
    => LET t == loadAttributionData(Cur({})) IN
       IF StoredAge > options.attributionExpiry * MsPerMinute
       THEN /\ attributionKey \notin DOMAIN t.ls
            /\ t.currentAttribution = currentAttribution
            /\ \A url \in world.urls :
                  /\ Constructed(url).currentAttribution = <<>>
                  /\ attributionKey \notin DOMAIN Constructed(url).ls
       ELSE /\ t.currentAttribution = StoredAttribution
            /\ t.ls = ls
            /\ \A url \in world.urls :
                  /\ Constructed(url).currentAttribution = StoredAttribution
                  /\ Constructed(url).ls = ls

\* A record two minutes old is in storage when the window is one minute, and
\* loading it removes the entry.
C12_ExpiredRecordInStorage ==
    /\ variant = "A" /\ hasWindow /\ attributionKey \in DOMAIN ls
    /\ StoredAge > options.attributionExpiry * MsPerMinute
    /\ attributionKey \notin DOMAIN loadAttributionData(Cur({})).ls


\* The instance a later page load constructs and initializes (init without
\* arguments) at url after run t; the same with the device cookie cleared in
\* between.
Reloaded(t, url) ==
    init(construct([t EXCEPT !.href = url, !.hooks = {},
                             !.io = <<>>, !.fetched = <<>>, !.thrown = FALSE,
                             !.F = {}, !.w = 0]),
         <<>>, <<>>)
ReloadedWithoutCookie(t, url) == Reloaded([t EXCEPT !.cookie = 0], url)

\* C13 as stated: recordSignup sets the prior device identifier to the device
\* identifier in effect before the call and persists it, and the value is
\* retrievable afterwards (exportJourney().old_uuid), also after the device
\* cookie was cleared and a later page load obtained a new device identifier.
C13_PriorIdentifierRetrievable ==
    \A userId \in world.users :
        LET t == recordSignup(Cur({}), userId) IN
        /\ t.oldUuid = uuid
        /\ exportJourney(t).old_uuid = <<uuid>>
        /\ hasWindow
           => /\ hasItem(t, oldUuidKey)
              /\ getItem(t, oldUuidKey) = uuid
              /\ \A url \in world.urls :
                    LET r == ReloadedWithoutCookie(t, url) IN
                    /\ r.uuid # uuid
                    /\ exportJourney(r).old_uuid = <<uuid>>


\* The visitor is authenticated as userId in memory / in storage after run t.
AuthenticatedInMemory(t, userId) == t.isLoggedIn /\ t.derivUserId = userId
AuthenticatedInStorage(t, userId) ==
    hasItem(t, userIdKey) /\ getItem(t, userIdKey) = userId

\* C14 as stated: recordLogin(u) and recordSignup(u) can be called in every
\* identity state, and after the call the authenticated flag is true and the
\* user identifier is u, in memory and in persisted storage.
C14_AuthenticatedInMemoryAndStorage ==
    \A userId \in Users, F \in AnyFaults :
        /\ AuthenticatedInMemory(recordLogin(Cur(F), userId), userId)
        /\ AuthenticatedInMemory(recordSignup(Cur(F), userId), userId)
        /\ AuthenticatedInStorage(recordLogin(Cur(F), userId), userId)
        /\ AuthenticatedInStorage(recordSignup(Cur(F), userId), userId)

\* What recordLogin / recordSignup (run t) leave for userId: in memory always;
\* in a browser also in storage, from where a later page load restores the
\* flag and the identifier, unless the write of the identifier fails: then
\* storage is as before.  Without a browser nothing is stored.
AuthenticatedUnlessWriteFails(t, userId) ==
    /\ AuthenticatedInMemory(t, userId)
    /\ IF ~hasWindow THEN t.ls = ls
       ELSE IF 1 \in t.F
       THEN t.ls = ls
       ELSE /\ AuthenticatedInStorage(t, userId)
            /\ AuthenticatedInMemory(Reloaded(t, href), userId)

\* C14 amended: in every identity state, after recordLogin(u) / recordSignup(u)
\* the flag is true and the identifier is u in memory; in a browser the
\* identifier is u in storage as well unless its write fails.
C14_AuthenticatedUnlessWriteFails ==
    \A userId \in Users, F \in AnyFaults :
        /\ AuthenticatedUnlessWriteFails(recordLogin(Cur(F), userId), userId)
        /\ AuthenticatedUnlessWriteFails(recordSignup(Cur(F), userId), userId)

\* A visitor authenticated as one user logs in as another.
C14_SecondLoginAsOtherUser ==
    /\ hasWindow /\ isLoggedIn
    /\ hasItem(Cur({}), userIdKey)
    /\ \E userId \in Users :
          /\ userId # derivUserId
          /\ getItem(Cur({}), userIdKey) # userId
          /\ AuthenticatedInStorage(recordLogin(Cur({}), userId), userId)
          /\ AuthenticatedInMemory(recordLogin(Cur({}), userId), userId)


\* The log updateLoginState(loggedIn, ...) leaves when the log is amended as
\* a whole: the previous events, the current one carrying the new flag
\* (variant A amends only when the tracker's flag changes).
Flagged(t, loggedIn) ==
    IF ~t.thrown /\ CurrentIndex # 0 /\ (variant = "B" \/ isLoggedIn # loggedIn)
    THEN [events EXCEPT ![CurrentIndex].is_loggedin = loggedIn]
    ELSE events

\* What updateLoginState (run t) may not touch: everything but the flag, the
\* user identifier with its storage entry, and the log with its storage entry.
RestUntouched(t, userIdArg) ==
    /\ t.oldUuid = oldUuid
    /\ t.currentAttribution = currentAttribution
    /\ t.uuid = uuid /\ t.cookie = cookie
    /\ t.currentPageEventId = currentPageEventId
    /\ t.lastTrackedUrl = lastTrackedUrl /\ t.href = href
    /\ t.isInitialized = isInitialized /\ t.hooks = hooks
    /\ t.derivUserId = IF userIdArg # <<>> THEN userIdArg[1] ELSE derivUserId
    /\ \A key \in (DOMAIN ls \cup DOMAIN t.ls) \ {storageKey, userIdKey} :
          key \in DOMAIN ls /\ key \in DOMAIN t.ls /\ t.ls[key] = ls[key]
    /\ userIdArg = <<>>
       => \A key \in (DOMAIN ls \cup DOMAIN t.ls) \cap {userIdKey} :
             key \in DOMAIN ls /\ key \in DOMAIN t.ls /\ t.ls[key] = ls[key]

\* C15 as stated: updateLoginState(isLoggedIn, userId?) changes only the
\* tracker's authenticated flag, optionally the user identifier (memory and
\* persisted), and the authenticated flag of the current event; it never
\* modifies the prior device identifier, never resets or shortens the event
\* log, never changes CurrentAttribution.
C15_UpdateChangesFlagAndUserOnly ==
    \A loggedIn \in BOOLEAN, userIdArg \in Optional(Users), F \in AnyFaults :
        LET t == updateLoginState(Cur(F), loggedIn, userIdArg) IN
        /\ t.isLoggedIn = loggedIn
        /\ RestUntouched(t, userIdArg)
        /\ t.events = Flagged(t, loggedIn)

\* C15 amended: as stated, except that when writing the amended log to
\* storage fails for lack of quota and the log is longer than 10 events, only
\* its last 10 events remain.
C15_UpdateChangesFlagAndUserOnlyOrTen ==
    \A loggedIn \in BOOLEAN, userIdArg \in Optional(Users), F \in AnyFaults :
        LET t == updateLoginState(Cur(F), loggedIn, userIdArg) IN
        /\ t.isLoggedIn = loggedIn
        /\ RestUntouched(t, userIdArg)
        /\ t.events = AfterSave(t, Flagged(t, loggedIn))

\* After a signup without reset, with attribution held, a prior identifier
\* set and two events logged, updateLoginState(false) clears the flag of the
\* current event only.
C15_LogoutAfterSignup ==
    /\ hasWindow /\ isLoggedIn /\ oldUuid # 0
    /\ Len(events) = 2 /\ CurrentIndex = 2
    /\ events[2].is_loggedin
    /\ LET t == updateLoginState(Cur({}), FALSE, <<>>) IN
       /\ ~t.isLoggedIn
       /\ t.oldUuid = oldUuid
       /\ t.events[1] = events[1]
       /\ ~t.events[2].is_loggedin


\* C16: init is idempotent: the first init of an instance marks it
\* initialized, and every later init of that instance, whatever its arguments,
\* changes nothing, logs and delivers no event, touches no storage and
\* installs no listener.
C16_InitAfterFirstIsNoOp ==
    \A loggedInArg \in Optional(BOOLEAN), userIdArg \in Optional(Users),
       F \in NavigationFaults :
        LET t == init(Cur(F), loggedInArg, userIdArg) IN
        /\ t.isInitialized
        /\ isInitialized => t = Cur(F)
        /\ \A againLoggedIn \in Optional(BOOLEAN), againUserId \in Optional(Users) :
              init(t, againLoggedIn, againUserId) = t

\* An initialized tracker whose page has moved on without being tracked, and
\* a second init with the other flag and another user: nothing happens.
C16_SecondInitOtherArguments ==
    /\ hasWindow /\ isInitialized
    /\ href # lastTrackedUrl
    /\ derivUserId # "u2"
    /\ init(Cur({}), <<~isLoggedIn>>, <<"u2">>) = Cur({})


\* C17 as stated: a storage fault never propagates to the caller of a public
\* operation: init, trackPageView, recordLogin, recordSignup,
\* updateLoginState and clearEvents all return normally when storage raises.
C17_StorageFaultNeverPropagates ==
    \A F \in AnyFaults :
        /\ \A loggedInArg \in Optional(BOOLEAN), userIdArg \in Optional(Users) :
              /\ ~init(Cur(F), loggedInArg, userIdArg).thrown
              /\ \A loggedIn \in BOOLEAN :
                    ~updateLoginState(Cur(F), loggedIn, userIdArg).thrown
        /\ \A url \in Optional(world.urls) : ~trackPageView(Cur(F), url).thrown
        /\ \A userId \in Users :
              /\ ~recordLogin(Cur(F), userId).thrown
              /\ ~recordSignup(Cur(F), userId).thrown
        /\ ~clearEvents(Cur(F)).thrown


\* Run t neither raised nor reached storage, the cookie or the network, and
\* left the log empty.
Inert(t) ==
    /\ ~t.thrown
    /\ t.io = <<>> /\ t.fetched = <<>>
    /\ t.ls = <<>> /\ t.cookie = 0
    /\ t.events = <<>> /\ getEvents(t) = <<>>
    /\ t.hooks = {}
    /\ t.uuid = uuid

\* C19: without a window, after any sequence of operations the log is empty,
\* nothing is persisted, the device identifier is generated and not persisted,
\* and every public operation returns without raising, without logging an
\* event, and without touching storage, the cookie or the network.
C19_NoWindowNothingLoggedOrPersisted ==
    ~hasWindow
    => /\ events = <<>> /\ getEvents(Cur({})) = <<>>
       /\ exportJourney(Cur({})).events = <<>>
       /\ ls = <<>> /\ cookie = 0
       /\ uuid # 0 /\ exportJourney(Cur({})).uuid = uuid
       /\ \A F \in AnyFaults :
             /\ \A loggedInArg \in Optional(BOOLEAN), userIdArg \in Optional(Users) :
                   /\ Inert(init(Cur(F), loggedInArg, userIdArg))
                   /\ \A loggedIn \in BOOLEAN :
                         Inert(updateLoginState(Cur(F), loggedIn, userIdArg))
             /\ \A url \in Optional(Urls) : Inert(trackPageView(Cur(F), url))
             /\ \A userId \in Users :
                   /\ Inert(recordLogin(Cur(F), userId))
                   /\ Inert(recordSignup(Cur(F), userId))
             /\ Inert(clearEvents(Cur(F)))

\* Without a window a tracker has been initialized and a signup recorded.
C19_SignedUpWithoutWindow ==
    /\ ~hasWindow
    /\ isInitialized /\ isLoggedIn /\ derivUserId # "" /\ oldUuid = uuid
    /\ events = <<>> /\ ls = <<>> /\ cookie = 0


\* The tracker's fields and what it keeps in the browser.
LocalState ==
    <<events, isInitialized, uuid, derivUserId, isLoggedIn, oldUuid,
      lastTrackedUrl, currentPageEventId, currentAttribution, cookie, ls,
      hooks, href, nextId>>

\* C18: in variant A the completion of a delivery (response ok, response not
\* ok, fetch rejected) changes no local state, whatever has happened since
\* the delivery was issued; and the operation that issues a delivery has
\* finished its own changes when it returns with the delivery in flight: the
\* event delivered is in the log with the tracker's flag and the log is
\* persisted, or the log has been reset and its persisted copy removed.
C18_CompletionChangesNoLocalState ==
    [][/\ DeliveryCompletes => UNCHANGED LocalState
       /\ \A i \in (Len(inFlight) + 1)..Len(inFlight') :
             \/ events' = <<>> /\ storageKey \notin DOMAIN ls'
             \/ /\ \E j \in 1..Len(events') :
                      /\ Ref(events'[j]) = inFlight'[i]
                      /\ events'[j].is_loggedin = isLoggedIn'
                /\ storageKey \in DOMAIN ls'
                /\ JSONparse(ls'[storageKey]) = events'
      ]_vars

\* A delivery is still in flight while the page has moved on to a later event
\* and the visitor has been authenticated.
C18_DeliveryOutlivedByLaterOperations ==
    /\ isLoggedIn
    /\ Len(events) = 2
    /\ \E i \in 1..Len(inFlight) :
          /\ inFlight[i] = Ref(events[1])
          /\ inFlight[i] # currentPageEventId


\* C20 as stated: getEvents() and exportJourney().events return a defensive
\* copy: nothing the caller does to the returned value, adding or removing
\* entries of the array or changing a field of a returned event, changes the
\* tracker's event log.
C20_ReturnedCopyIsDefensive ==
    [][(CallerChangesArray \/ CallerWritesEvent) => UNCHANGED events]_vars


\* C21: in a browser, while the device cookie holds a value every call of
\* getOrCreateUUID, in this instance and in the instance of any later page
\* load, yields that value, draws no identifier and writes no cookie; only
\* when there is no cookie value a new identifier is generated and written to
\* the cookie, and the next call yields it again.
C21_SameDeviceIdWhileCookiePresent ==
    hasWindow
    => LET t == getOrCreateUUID(Cur({})) IN
       /\ cookie # 0 => uuid = cookie
       /\ IF cookie # 0
          THEN /\ t.uuid = cookie /\ t.cookie = cookie
               /\ t.nextId = nextId /\ t.io = <<>>
               /\ \A url \in world.urls :
                     /\ Constructed(url).uuid = cookie
                     /\ Constructed(url).cookie = cookie
                     /\ Constructed(url).nextId = nextId
          ELSE /\ t.uuid = nextId /\ t.cookie = nextId
               /\ t.nextId = nextId + 1
               /\ \A url \in world.urls :
                     /\ Constructed(url).uuid = nextId
                     /\ Constructed(url).cookie = nextId
       /\ getOrCreateUUID(t).uuid = t.uuid
       /\ getOrCreateUUID(t).nextId = t.nextId

\* The cookie was cleared and a later page load has generated and persisted
\* a second device identifier, which a further page load would obtain again.
C21_SecondDeviceIdAfterCookieCleared ==
    /\ hasWindow
    /\ cookie # 0 /\ cookie # 1
    /\ uuid = cookie
    /\ Constructed(href).uuid = uuid


\* The log in storage, as loadEvents would read it (empty when absent).
PersistedLog(s) ==
    IF hasItem(s, storageKey) THEN JSONparse(getItem(s, storageKey)) ELSE <<>>

\* Every event of the log before is in the log after, in order and from the
\* front, but for events trimmed oldest-first from a log that is then full.
KeptOrTrimmed(before, after) ==
    \E k \in 0..Len(before) :
        /\ k > 0 => Len(after) = options.maxEvents
        /\ Len(after) >= Len(before) - k
        /\ \A i \in 1..(Len(before) - k) :
              after[i].event_id = before[k + i].event_id

KeepsHistory(t) ==
    /\ KeptOrTrimmed(events, t.events)
    /\ KeptOrTrimmed(PersistedLog(Cur({})), PersistedLog(t))

\* C22 as stated: without storage faults, no public operation other than a
\* reset (recordLogin / recordSignup with reset, clearEvents) removes or
\* replaces an event of the in-memory or of the persisted log, except by
\* oldest-first trimming of a full log; whether or not init has run.
C22_EventsLeaveOnlyByTrimOrReset ==
    hasWindow
    => /\ \A url \in Optional(world.urls) : KeepsHistory(trackPageView(Cur({}), url))
       /\ \A loggedInArg \in Optional(BOOLEAN), userIdArg \in Optional(world.users) :
             /\ KeepsHistory(init(Cur({}), loggedInArg, userIdArg))
             /\ loggedInArg # <<>>
                => KeepsHistory(updateLoginState(Cur({}), loggedInArg[1], userIdArg))
       /\ \A userId \in world.users :
             /\ ~options.resetOnLogin => KeepsHistory(recordLogin(Cur({}), userId))
             /\ ~options.resetOnSignup => KeepsHistory(recordSignup(Cur({}), userId))


\* The prior device identifier in storage is the same after the run t.
PriorInStorageKept(t) ==
    IF hasItem(Cur({}), oldUuidKey)
    THEN hasItem(t, oldUuidKey) /\ getItem(t, oldUuidKey) = getItem(Cur({}), oldUuidKey)
    ELSE ~hasItem(t, oldUuidKey)

\* The prior device identifier, once set, is left at its value by the run t.
PriorKept(t) ==
    /\ oldUuid # 0 => t.oldUuid = oldUuid
    /\ hasItem(Cur({}), oldUuidKey) => PriorInStorageKept(t)

\* C23 as stated: the prior device identifier, once set in memory or in
\* storage, keeps its first value through every later recordLogin,
\* updateLoginState and recordSignup, also through a recordSignup made after
\* the device identifier has changed.
C23_PriorIdentifierFirstWriterWins ==
    \A userId \in Users :
        /\ PriorKept(recordLogin(Cur({}), userId))
        /\ PriorKept(recordSignup(Cur({}), userId))
        /\ \A loggedIn \in BOOLEAN, userIdArg \in Optional(Users) :
              PriorKept(updateLoginState(Cur({}), loggedIn, userIdArg))

\* C23 amended: recordLogin and updateLoginState never change the prior
\* device identifier, in memory or in storage.  recordSignup always sets it
\* in memory to the device identifier of the instance (the most recent signup
\* wins), and in a browser writes that value over the stored one, unless the
\* write of the user id or of the prior identifier fails: then the stored one
\* is left as it was.  F is the set of the operation's first two storage
\* writes that fail.
C23_PriorIdentifierLastSignupWins ==
    \A F \in SUBSET (1..2) :
        /\ \A userId \in world.users :
              LET t == recordLogin(Cur(F), userId)
              IN t.oldUuid = oldUuid /\ PriorInStorageKept(t)
        /\ \A loggedIn \in BOOLEAN, userIdArg \in Optional(world.users) :
              LET t == updateLoginState(Cur(F), loggedIn, userIdArg)
              IN t.oldUuid = oldUuid /\ PriorInStorageKept(t)
        /\ \A userId \in Users :
           LET t == recordSignup(Cur(F), userId) IN
           /\ t.oldUuid = uuid
           /\ IF hasWindow /\ 1 \notin F /\ 2 \notin F
              THEN hasItem(t, oldUuidKey) /\ getItem(t, oldUuidKey) = uuid
              ELSE PriorInStorageKept(t)

\* The device identifier has changed since a signup stored the prior
\* identifier, and a signup now replaces the stored value.
C23_SignupAfterDeviceIdChanged ==
    /\ hasWindow
    /\ hasItem(Cur({}), oldUuidKey)
    /\ getItem(Cur({}), oldUuidKey) # uuid
    /\ \E userId \in Users :
          getItem(recordSignup(Cur({}), userId), oldUuidKey) = uuid


\* The writes of the event log attempted in run t.
Saves(t) ==
    {i \in 1..Len(t.io) : t.io[i].type = "setItem" /\ t.io[i].key = storageKey}

\* The log an append of event leaves in memory before it is written.
Pushed(event) == Trimmed(Append(events, event))

\* C24 as stated: when the write of the event log fails during an append,
\* the log is cut to its last 10 events (all of them when it has fewer) and
\* the write is tried exactly once more; whether or not the second write
\* fails, nothing is thrown and no third write is made.
C24_FailedSaveRetriedOnce ==
    hasWindow
    => \A url \in world.urls, F \in SUBSET (1..2) :
          LET event == NewEvent(url)
              t == addEvent(Cur(F), event)
              kept == IF Len(Pushed(event)) > KeepOnQuota
                      THEN LastN(Pushed(event), KeepOnQuota) ELSE Pushed(event)
          IN 1 \in F
             => /\ ~t.thrown
                /\ Cardinality(Saves(t)) = 2
                /\ t.events = kept

\* C24 amended: when the write of the event log fails during an append and
\* the log holds more than 10 events, the log is cut to its last 10 events
\* and the write is tried exactly once more; when the second write fails too
\* the stored log is left as it was and the log in memory stays cut to 10.
\* When the log holds 10 events or fewer, nothing is cut and the write is not
\* tried again.  In no case is anything thrown.
C24_FailedSaveRetriedOnceIfLong ==
    hasWindow
    => \A url \in world.urls, F \in SUBSET (1..2) :
          LET event == NewEvent(url)
              t == addEvent(Cur(F), event)
          IN /\ ~t.thrown
             /\ IF 1 \notin F
                THEN /\ Cardinality(Saves(t)) = 1
                     /\ t.events = Pushed(event)
                     /\ PersistedLog(t) = t.events
                ELSE IF Len(Pushed(event)) > KeepOnQuota
                THEN /\ Cardinality(Saves(t)) = 2
                     /\ t.events = LastN(Pushed(event), KeepOnQuota)
                     /\ IF 2 \notin F
                        THEN PersistedLog(t) = t.events
                        ELSE t.ls = ls
                ELSE /\ Cardinality(Saves(t)) = 1
                     /\ t.events = Pushed(event)
                     /\ t.ls = ls

\* An append to a log of 11 events found the store full twice: 10 events are
\* left in memory, the newest last, and the stored log is the stale one.
C24_TenLeftAfterFailedRetry ==
    /\ hasWindow
    /\ Len(events) = KeepOnQuota
    /\ Last(events).event_id = nextId - 1
    /\ Len(PersistedLog(Cur({}))) = LongLog
    /\ PersistedLog(Cur({}))[1].event_id < events[1].event_id


\* The run t of an identity operation amended nothing: it made no write of
\* the event log and no delivery, left the pointer to the current event and
\* an absent stored log as they were, and left the log as it was or, when it
\* resets, empty.
NothingAmended(t, resets) ==
    /\ Saves(t) = {}
    /\ Deliveries(t) = {} /\ t.fetched = <<>>
    /\ t.currentPageEventId = currentPageEventId
    /\ ~hasItem(Cur({}), storageKey) => ~hasItem(t, storageKey)
    /\ t.events = IF resets /\ ~t.thrown THEN <<>> ELSE events

\* C25: while no event of the log carries the identifier of the current
\* event (a reset or a truncation has removed it), recordLogin, recordSignup
\* and updateLoginState amend no event, write no event log to storage, so
\* that a reset log stays absent from storage, and deliver nothing; whichever
\* of their first two storage writes fail.
C25_AbsentCurrentEventNotAmended ==
    CurrentIndex = 0
    => \A F \in SUBSET (1..2) :
          /\ \A userId \in Users :
                /\ NothingAmended(recordLogin(Cur(F), userId), options.resetOnLogin)
                /\ NothingAmended(recordSignup(Cur(F), userId), options.resetOnSignup)
          /\ \A loggedIn \in BOOLEAN, userIdArg \in Optional(Users) :
                NothingAmended(updateLoginState(Cur(F), loggedIn, userIdArg), FALSE)

\* A login has reset the log: the tracker still points at the event that was
\* current, the log is empty and absent from storage, and a logout follows.
C25_LogoutAfterReset ==
    /\ hasWindow /\ isLoggedIn
    /\ currentPageEventId # 0 /\ CurrentIndex = 0
    /\ events = <<>> /\ ~hasItem(Cur({}), storageKey)
    /\ updateLoginState(Cur({}), FALSE, <<>>).isLoggedIn = FALSE
    /\ NothingAmended(updateLoginState(Cur({}), FALSE, <<>>), FALSE)


\* A step of recordLogin, recordSignup or updateLoginState.
IdentityStep == CallRecordLogin \/ CallRecordSignup \/ CallUpdateLoginState

\* C26 as stated: an event that is in the log before and after a step has the
\* same fields after it, except that a step of recordLogin, recordSignup or
\* updateLoginState may set is_loggedin of the most recently captured event,
\* the last of the log, to the tracker's flag.
C26_EventsImmutableButLastFlag ==
    [][\A i \in 1..Len(events), j \in 1..Len(events') :
          events[i].event_id = events'[j].event_id
          => \/ events'[j] = events[i]
             \/ /\ IdentityStep
                /\ i = Len(events)
                /\ events'[j] = [events[i] EXCEPT !.is_loggedin = isLoggedIn']]_vars


\* The payload of a delivery of event issued now for device identifier id,
\* user userId and prior identifier prior.
Payload(id, userId, prior, event) ==
    [uuid |-> id, deriv_user_id |-> userId, old_uuid |-> prior,
     event |-> event, timestamp |-> now]

\* Run t appended at most one event and issued one delivery for it, none
\* when it appended none.
OneDeliveryPerAppend(t) ==
    /\ Len(t.fetched) = Logged(t)
    /\ Logged(t) = 1
       => t.fetched = <<Payload(uuid, t.derivUserId, oldUuid, Last(t.events))>>

\* Run t of an identity operation that sets the flag to loggedIn issued one
\* delivery of the amended current event when it amended it, none otherwise.
OneDeliveryPerAmendment(t, amends, loggedIn) ==
    IF amends /\ ~t.thrown /\ CurrentIndex # 0
    THEN t.fetched =
            <<Payload(uuid, t.derivUserId, t.oldUuid,
                      [events[CurrentIndex] EXCEPT !.is_loggedin = loggedIn])>>
    ELSE t.fetched = <<>>

\* C27: in variant A every append issues exactly one delivery of the new
\* event, and every amendment of an event in the log by recordLogin,
\* recordSignup or an updateLoginState that changes the flag issues exactly
\* one delivery of the amended event, with the device identifier, the user
\* identifier and the prior identifier as they are at that moment; an
\* operation that appends or amends nothing issues none, and the completion
\* of a delivery, whatever its outcome, issues none.
C27_OneDeliveryPerAppendAndAmendment ==
    variant = "A"
    => /\ \A F \in SUBSET (1..3) :
             /\ \A url \in Optional(world.urls) :
                   OneDeliveryPerAppend(trackPageView(Cur(F), url))
             /\ ~isInitialized
                => \A loggedInArg \in Optional(BOOLEAN), userIdArg \in Optional(world.users) :
                      OneDeliveryPerAppend(init(Cur(F), loggedInArg, userIdArg))
       /\ \A F \in SUBSET (1..2) :
             /\ \A userId \in Users :
                   /\ OneDeliveryPerAmendment(recordLogin(Cur(F), userId), TRUE, TRUE)
                   /\ LET t == recordSignup(Cur(F), userId) IN
                      /\ OneDeliveryPerAmendment(t, TRUE, TRUE)
                      /\ t.oldUuid = uuid
             /\ \A loggedIn \in BOOLEAN, userIdArg \in Optional(Users) :
                   OneDeliveryPerAmendment(
                       updateLoginState(Cur(F), loggedIn, userIdArg),
                       loggedIn # isLoggedIn, loggedIn)
       /\ \A i \in 1..Len(inFlight), outcome \in Outcomes :
             LET t == sendEventToBackendResumed(Cur({}), inFlight[i], outcome)
             IN t.fetched = <<>> /\ t.io = <<>>

\* The delivery issued when the current event was appended and the delivery
\* issued when a login or signup amended it are both in flight.
C27_AppendAndAmendmentInFlight ==
    /\ Len(inFlight) = 2
    /\ inFlight[1] = inFlight[2]
    /\ CurrentIndex # 0
    /\ inFlight[2] = currentPageEventId
    /\ events[CurrentIndex].is_loggedin


\* After run t, if it changed the log: the stored log is the log in memory,
\* and there is no stored log when the log in memory is empty.
PersistedAsInMemory(t) ==
    t.events # events
    => /\ PersistedLog(t) = t.events
       /\ t.events = <<>> => ~hasItem(t, storageKey)

\* After run t of an operation that resets the log: the log is empty and
\* there is no stored log.
PersistedAbsent(t) == t.events = <<>> /\ ~hasItem(t, storageKey)

\* C28: when no storage write fails during it, every operation that changes
\* the event log (an append with or without trimming, by a navigation or by
\* init after it has loaded the stored log; an amendment of the current
\* event; a reset) leaves the stored log equal to the log in memory, and
\* leaves no stored log when it resets.
C28_PersistedEqualsMemoryAfterMutation ==
    hasWindow
    => /\ \A url \in world.urls :
             /\ PersistedAsInMemory(trackPageView(Cur({}), <<url>>))
             /\ PersistedAsInMemory(historyPushState(Cur({}), url))
             /\ PersistedAsInMemory(historyReplaceState(Cur({}), url))
             /\ PersistedAsInMemory(dispatchPopState(Cur({}), url))
       /\ PersistedAsInMemory(trackPageView(Cur({}), <<>>))
       /\ \A loggedInArg \in Optional(BOOLEAN), userIdArg \in Optional(world.users) :
             PersistedAsInMemory(init(Cur({}), loggedInArg, userIdArg))
       /\ \A loggedIn \in BOOLEAN, userIdArg \in Optional(world.users) :
             PersistedAsInMemory(updateLoginState(Cur({}), loggedIn, userIdArg))
       /\ \A userId \in world.users :
             /\ IF options.resetOnLogin
                THEN PersistedAbsent(recordLogin(Cur({}), userId))
                ELSE PersistedAsInMemory(recordLogin(Cur({}), userId))
             /\ IF options.resetOnSignup
                THEN PersistedAbsent(recordSignup(Cur({}), userId))
                ELSE PersistedAsInMemory(recordSignup(Cur({}), userId))
       /\ PersistedAbsent(clearEvents(Cur({})))

\* A full log that has lost its oldest event to trimming and whose newest
\* event has been flagged by a login without reset is stored as it is in
\* memory.
C28_TrimmedAndAmendedLogStored ==
    /\ hasWindow
    /\ Len(events) = options.maxEvents
    /\ events[1].event_id > 2
    /\ CurrentIndex = Len(events)
    /\ Last(events).is_loggedin /\ ~events[1].is_loggedin
    /\ PersistedLog(Cur({})) = events


\* Two URLs of the same origin: the same host and the same port (every URL of
\* the model has the scheme https).
SameOrigin(a, b) == a.hostname = b.hostname /\ a.port = b.port

\* C29 as stated: the record extracted for a page includes the document
\* referrer if and only if there is a referrer and its origin differs from
\* the page's origin.
C29_ReferrerIncludedIffOtherOrigin ==
    hasWindow
    => \A url \in world.urls :
          ("referrer" \in DOMAIN Extracted(url))
          <=> (referrer # RefNone /\ ~SameOrigin(referrer, url))

\* C29 amended: the record extracted for a page includes the document
\* referrer, unchanged, if and only if there is a referrer and its hostname
\* differs from the page's hostname; a referrer of the same host is not
\* included, whatever its port.  In variant B, whose events carry the
\* extracted record, every logged event obeys the same rule.
C29_ReferrerIncludedIffOtherHostname ==
    hasWindow
    => /\ \A url \in world.urls :
             IF referrer # RefNone /\ referrer.hostname # url.hostname
             THEN /\ "referrer" \in DOMAIN Extracted(url)
                  /\ Extracted(url)["referrer"] = referrer
             ELSE "referrer" \notin DOMAIN Extracted(url)
       /\ variant = "B"
          => \A i \in 1..Len(events) :
                IF /\ events[i].referrer # RefNone
                   /\ events[i].referrer.hostname # events[i].url.hostname
                THEN /\ "referrer" \in DOMAIN events[i].attribution
                     /\ events[i].attribution["referrer"] = events[i].referrer
                ELSE "referrer" \notin DOMAIN events[i].attribution

\* The page was reached from a page of the same host on another port and an
\* event was logged for it; the extracted record has no referrer.
C29_ReferrerOfSameHostOtherPort ==
    /\ hasWindow
    /\ referrer = RefOtherPort
    /\ events # <<>>
    /\ Last(events).referrer = RefOtherPort
    /\ Last(events).url.hostname = referrer.hostname
    /\ "referrer" \notin DOMAIN Last(events).attribution
    /\ "referrer" \notin DOMAIN Extracted(href)


\* Run t left every event but the last of its log as the event of the same
\* identifier was before.
AmendsLastOnly(t) ==
    \A j \in 1..(Len(t.events) - 1), i \in 1..Len(events) :
        events[i].event_id = t.events[j].event_id => t.events[j] = events[i]


\* C30: in both variants, in every reachable state, an event of the log that
\* carries the identifier of the current event is the last event of the log,
\* and no other event carries that identifier; so an amendment of the
\* authenticated flag by recordLogin, recordSignup or updateLoginState
\* changes no event but the last.
C30_CurrentEventIsLast ==
    /\ \A i \in 1..Len(events) :
          events[i].event_id = currentPageEventId => i = Len(events)
    /\ \A F \in SUBSET (1..2) :
          /\ \A userId \in world.users :
                /\ ~options.resetOnLogin
                   => AmendsLastOnly(recordLogin(Cur(F), userId))
                /\ ~options.resetOnSignup
                   => AmendsLastOnly(recordSignup(Cur(F), userId))
          /\ \A loggedIn \in BOOLEAN, userIdArg \in Optional(world.users) :
                AmendsLastOnly(updateLoginState(Cur(F), loggedIn, userIdArg))

\* The current event is the last of a log of two, the first being the event
\* of an earlier navigation, and a login without reset flags only the last.
C30_CurrentEventAfterEarlierOne ==
    /\ Len(events) = 2
    /\ CurrentIndex = 2
    /\ events[1].event_id < events[2].event_id
    /\ ~events[1].is_loggedin /\ ~events[2].is_loggedin
    /\ ~options.resetOnLogin
    /\ \E userId \in world.users :
          LET t == recordLogin(Cur({}), userId)
          IN ~t.events[1].is_loggedin /\ t.events[2].is_loggedin


\* C31: in both variants, when init is the first operation on every tracker
\* instance and no storage write fails, in every reachable state the event
\* the current-event pointer names, if it is in the log, carries the
\* tracker's authenticated flag.
C31_CurrentEventCarriesTrackerFlag ==
    CurrentIndex # 0 => events[CurrentIndex].is_loggedin = isLoggedIn

\* The current event was logged while the visitor was anonymous, a login
\* without reset flagged it, and a logout has cleared its flag again.
C31_CurrentEventFlaggedAndCleared ==
    /\ isInitialized
    /\ CurrentIndex # 0
    /\ derivUserId # ""
    /\ ~isLoggedIn
    /\ ~events[CurrentIndex].is_loggedin


\* A tracker instance on which no operation has been called yet.
Fresh ==
    /\ ~isInitialized
    /\ events = <<>> /\ currentPageEventId = 0 /\ lastTrackedUrl = NoUrl
    /\ ~isLoggedIn /\ derivUserId = "" /\ oldUuid = 0
    /\ hooks = {}

IsSuffix(a, b) == Len(a) <= Len(b) /\ a = LastN(b, Len(a))

\* The stored log followed by the event run t has logged, if any.
CarriedOver(t) ==
    PersistedLog(Cur({})) \o (IF Logged(t) = 1 THEN <<Last(t.events)>> ELSE <<>>)

\* C32: in a browser, after init as the first operation of a fresh instance
\* the log is a suffix of the stored events in their stored order followed by
\* at most one new event; it is all of them when they do not exceed maxEvents
\* and the write of the log succeeds or there are at most 10 of them.  For
\* all arguments of init and every set of failing storage writes.
C32_InitCarriesStoredLogOver ==
    (hasWindow /\ Fresh)
    => \A loggedInArg \in Optional(BOOLEAN), userIdArg \in Optional(world.users),
          F \in SUBSET (1..3) :
          LET t == init(Cur(F), loggedInArg, userIdArg) IN
          /\ Logged(t) <= 1
          /\ Logged(t) = 1 => Last(t.events).event_id = nextId
          /\ IsSuffix(t.events, CarriedOver(t))
          /\ (/\ Len(CarriedOver(t)) <= options.maxEvents
              /\ ~SaveFailed(t) \/ Len(CarriedOver(t)) <= KeepOnQuota)
             => t.events = CarriedOver(t)

\* A page load finds the events of the earlier page in storage, fewer than
\* maxEvents: init carries them over and adds the event of this page load.
C32_ReloadWithStoredEvents ==
    /\ hasWindow /\ Fresh
    /\ PersistedLog(Cur({})) # <<>>
    /\ Len(PersistedLog(Cur({}))) < options.maxEvents
    /\ LET t == init(Cur({}), <<>>, <<>>) IN
       /\ Len(t.events) = Len(PersistedLog(Cur({}))) + 1
       /\ SubSeq(t.events, 1, Len(t.events) - 1) = PersistedLog(Cur({}))


\* C33: in variant A, in a browser, init as the first operation of a fresh
\* instance appends exactly one event, for the current page, as the last of
\* the log, makes it the current event and delivers it; whatever the URL of
\* the last stored event, whatever autoTrack, for all arguments and every set
\* of failing storage writes.
C33_InitAlwaysLogsThePage ==
    (variant = "A" /\ hasWindow /\ Fresh)
    => \A loggedInArg \in Optional(BOOLEAN), userIdArg \in Optional(world.users),
          F \in SUBSET (1..3) :
          LET t == init(Cur(F), loggedInArg, userIdArg) IN
          /\ Logged(t) = 1
          /\ Last(t.events).event_id = nextId
          /\ Last(t.events).url = href
          /\ t.currentPageEventId = nextId
          /\ t.lastTrackedUrl = href
          /\ Len(t.fetched) = 1 /\ t.fetched[1].event = Last(t.events)

\* The page is reloaded: the last stored event was logged just now for the URL the
\* fresh instance is at, and init logs the page again.
C33_ReloadOfTheLastLoggedPage ==
    /\ variant = "A" /\ hasWindow /\ Fresh
    /\ PersistedLog(Cur({})) # <<>>
    /\ Last(PersistedLog(Cur({}))).timestamp = now
    /\ options.maxEvents = MaxEvents
    /\ Last(PersistedLog(Cur({}))).url = href
    /\ LET t == init(Cur({}), <<>>, <<>>) IN
       /\ Len(t.events) >= 2
       /\ t.events[Len(t.events) - 1].url = Last(t.events).url
       /\ t.currentPageEventId = Last(t.events).event_id


\* C34: when init runs without a userId while a user identifier is stored,
\* the tracker ends with that identifier and the authenticated flag true,
\* whatever the isLoggedIn argument, and an event init logs for the page
\* carries is_loggedin = true.  For every set of failing storage writes.
C34_StoredUserIdOverridesArgument ==
    (hasWindow /\ ~isInitialized /\ hasItem(Cur({}), userIdKey))
    => \A loggedInArg \in Optional(BOOLEAN), F \in SUBSET (1..3) :
          LET t == init(Cur(F), loggedInArg, <<>>) IN
          /\ t.derivUserId = getItem(Cur({}), userIdKey)
          /\ t.isLoggedIn
          /\ \A i \in NewEvents(t) : t.events[i].is_loggedin
          /\ variant = "A" /\ Fresh => Logged(t) = 1

\* A page load after a login: the fresh instance is anonymous, the user id
\* is in storage, and init(false) ends authenticated with a flagged event.
C34_InitFalseWithStoredUserId ==
    /\ hasWindow /\ Fresh
    /\ hasItem(Cur({}), userIdKey)
    /\ LET t == init(Cur({}), <<FALSE>>, <<>>) IN
       /\ t.isLoggedIn
       /\ t.derivUserId = getItem(Cur({}), userIdKey)
       /\ Logged(t) = 1
       /\ Last(t.events).is_loggedin


\* C35: the prior device identifier in memory is assigned by recordSignup
\* only, which sets it to the device identifier: init, trackPageView, the
\* navigation listeners, recordLogin, updateLoginState and clearEvents leave
\* it as it is, for every set of failures of their first two storage writes.
\* A new instance starts without it and init does not restore it from its
\* storage entry: after a page load exportJourney().old_uuid is undefined and
\* deliveries carry no old_uuid.
C35_PriorIdentifierSetBySignupOnly ==
    /\ \A F \in SUBSET (1..2) :
          /\ \A url \in Optional(world.urls) :
                trackPageView(Cur(F), url).oldUuid = oldUuid
          /\ \A url \in world.urls :
                /\ historyPushState(Cur(F), url).oldUuid = oldUuid
                /\ historyReplaceState(Cur(F), url).oldUuid = oldUuid
                /\ dispatchPopState(Cur(F), url).oldUuid = oldUuid
          /\ \A loggedInArg \in Optional(BOOLEAN), userIdArg \in Optional(world.users) :
                init(Cur(F), loggedInArg, userIdArg).oldUuid = oldUuid
          /\ \A loggedIn \in BOOLEAN, userIdArg \in Optional(world.users) :
                updateLoginState(Cur(F), loggedIn, userIdArg).oldUuid = oldUuid
          /\ \A userId \in world.users :
                /\ recordLogin(Cur(F), userId).oldUuid = oldUuid
                /\ recordSignup(Cur(F), userId).oldUuid = uuid
    /\ clearEvents(Cur({})).oldUuid = oldUuid
    /\ \A url \in world.urls : Constructed(url).oldUuid = 0
    /\ LET r == Reloaded(Cur({}), href) IN
       /\ r.oldUuid = 0
       /\ exportJourney(r).old_uuid = <<>>
       /\ \A i \in 1..Len(r.fetched) : r.fetched[i].old_uuid = 0

\* A page load after a signup: the prior identifier is in storage, the fresh
\* instance has none, and has none after init.
C35_StoredPriorIdentifierNotRestored ==
    /\ hasWindow /\ Fresh
    /\ hasItem(Cur({}), oldUuidKey)
    /\ exportJourney(Cur({})).old_uuid = <<>>
    /\ exportJourney(init(Cur({}), <<>>, <<>>)).old_uuid = <<>>


\* Run t left the storage entries outside keys as they were.
StorageKeptBut(t, keys) ==
    \A key \in (DOMAIN ls \cup DOMAIN t.ls) \ keys :
        key \in DOMAIN ls /\ key \in DOMAIN t.ls /\ t.ls[key] = ls[key]

\* What a reset leaves alone: the device identifier and its cookie, the
\* attribution and its storage entry, the last tracked URL and the pointer
\* to the current event.
ResetFrame(t) ==
    /\ t.uuid = uuid /\ t.cookie = cookie
    /\ t.currentAttribution = currentAttribution
    /\ t.lastTrackedUrl = lastTrackedUrl
    /\ t.currentPageEventId = currentPageEventId
    /\ t.href = href /\ t.hooks = hooks /\ t.isInitialized = isInitialized

\* The state in which run t has ended, as the next operation finds it.
Then(t) ==
    [t EXCEPT !.io = <<>>, !.fetched = <<>>, !.thrown = FALSE, !.F = {},
              !.w = 0, !.quotaErrors = 0]

\* In variant A the event of a navigation after run t to a URL without
\* marketing fields carries the attribution held before t.
InheritsAfter(t) ==
    \A url \in world.urls :
        (MarketingFields(Extracted(url)) = {} /\ url # lastTrackedUrl)
        => LET v == trackPageView(Then(t), <<url>>) IN
           /\ Len(v.events) = 1
           /\ v.events[1].attribution
                 = With(currentAttribution, "landing_page", url.pathname)

\* C36: clearEvents empties the log, removes its storage entry and changes
\* nothing else; recordLogin and recordSignup with reset, for every set of
\* failing storage writes, change besides the log and its entry only what a
\* login or signup changes without reset (flag, user id, prior identifier
\* and their entries), and a call that a failing write cuts short before the
\* reset leaves the log as well.  So in variant A the first event logged
\* after a reset for a URL without marketing fields carries the attribution
\* held before the reset.
C36_ResetChangesLogOnly ==
    /\ LET t == clearEvents(Cur({})) IN
       /\ t.events = <<>> /\ ~hasItem(t, storageKey)
       /\ ResetFrame(t) /\ StorageKeptBut(t, {storageKey})
       /\ t.derivUserId = derivUserId /\ t.isLoggedIn = isLoggedIn
       /\ t.oldUuid = oldUuid
    /\ \A userId \in world.users, F \in SUBSET (1..3) :
          /\ options.resetOnLogin
             => LET t == recordLogin(Cur(F), userId) IN
                /\ ResetFrame(t) /\ StorageKeptBut(t, {storageKey, userIdKey})
                /\ t.oldUuid = oldUuid
                /\ IF t.thrown
                   THEN t.events = events /\ StorageKeptBut(t, {userIdKey})
                   ELSE /\ t.events = <<>> /\ ~hasItem(t, storageKey)
                        /\ (variant = "A" /\ hasWindow
                                /\ DOMAIN currentAttribution # {})
                           => InheritsAfter(t)
          /\ options.resetOnSignup
             => LET t == recordSignup(Cur(F), userId) IN
                /\ ResetFrame(t)
                /\ StorageKeptBut(t, {storageKey, userIdKey, oldUuidKey})
                /\ IF t.thrown
                   THEN /\ t.events = events
                        /\ StorageKeptBut(t, {userIdKey, oldUuidKey})
                   ELSE /\ t.events = <<>> /\ ~hasItem(t, storageKey)
                        /\ (variant = "A" /\ hasWindow
                                /\ DOMAIN currentAttribution # {})
                           => InheritsAfter(t)

\* After a login had reset the log, the visitor moved to a page without
\* marketing fields: its event, alone in the log, carries the campaign of
\* the landing before the login.
C36_CampaignInheritedAfterLoginReset ==
    /\ variant = "A" /\ hasWindow
    /\ options.resetOnLogin /\ isLoggedIn
    /\ Len(events) = 1
    /\ events[1].event_id > 3
    /\ events[1].is_loggedin
    /\ events[1].url.search = <<>>
    /\ "utm_source" \in DOMAIN events[1].attribution
    /\ events[1].attribution["utm_source"] = currentAttribution["utm_source"]


\* Run t left the attribution in memory and its storage entry as run u had
\* them.
AttributionAsIn(t, u) ==
    /\ t.currentAttribution = u.currentAttribution
    /\ hasItem(t, attributionKey) <=> hasItem(u, attributionKey)
    /\ hasItem(t, attributionKey)
       => getItem(t, attributionKey) = getItem(u, attributionKey)

AttributionKept(t) == AttributionAsIn(t, Cur({}))

\* C37: in variant A a navigation to a URL from which no marketing field is
\* extracted (trackPageView with and without a URL, pushState, replaceState,
\* popstate and hashchange), for every set of failing storage writes, leaves
\* the attribution in memory and its storage entry as they were, capture
\* timestamp included.  Tracking the page at init does the same: after init
\* both are as loadAttributionData alone leaves them.  So a later page load
\* finds the record expired or not as it would have without the visit.
C37_ReuseKeepsAttributionAndTimestamp ==
    (variant = "A" /\ hasWindow)
    => \A F \in NavigationFaults :
          /\ \A url \in world.urls :
                MarketingFields(Extracted(url)) = {}
                => /\ AttributionKept(trackPageView(Cur(F), <<url>>))
                   /\ AttributionKept(historyPushState(Cur(F), url))
                   /\ AttributionKept(historyReplaceState(Cur(F), url))
                   /\ AttributionKept(dispatchPopState(Cur(F), url))
                   /\ AttributionAsIn(Reloaded(Visit(url, F), url),
                                      Reloaded(Cur({}), url))
          /\ MarketingFields(Extracted(href)) = {}
             => /\ AttributionKept(trackPageView(Cur(F), <<>>))
                /\ ~isInitialized
                   => \A loggedInArg \in Optional(BOOLEAN),
                         userIdArg \in Optional(world.users) :
                         AttributionAsIn(init(Cur(F), loggedInArg, userIdArg),
                                         loadAttributionData(Cur({})))

\* A page without marketing fields was logged just now with the campaign
\* captured earlier: the record in memory and in storage still carries the
\* time of its capture.
C37_CampaignReusedWithOldTimestamp ==
    /\ variant = "A" /\ hasWindow
    /\ events # <<>>
    /\ Last(events).timestamp = now
    /\ MarketingFields(Extracted(Last(events).url)) = {}
    /\ "utm_source" \in DOMAIN Last(events).attribution
    /\ Last(events).attribution["attribution_timestamp"] < now
    /\ Last(events).attribution
          = With(currentAttribution, "landing_page", Last(events).url.pathname)
    /\ currentAttribution["attribution_timestamp"] < now
    /\ hasItem(Cur({}), attributionKey)
    /\ JSONparse(getItem(Cur({}), attributionKey)) = currentAttribution


\* C38: in variant A updateLoginState(v) without a user id, called while the
\* flag is v, returns the tracker, storage and cookie as they were, with no
\* storage write made and no delivery begun, whatever write would have
\* failed.  So after updateLoginState(v) from any state, for every v, a second
\* updateLoginState(v) changes nothing more.
C38_LoginStateUnchangedIsNoOp ==
    variant = "A"
    => \A F \in SUBSET (1..2) :
          /\ LET t == updateLoginState(Cur(F), isLoggedIn, <<>>) IN
             /\ t = Cur(F)
             /\ t.io = <<>> /\ t.fetched = <<>> /\ ~t.thrown
          /\ \A v \in BOOLEAN, G \in SUBSET (1..2) :
                LET once == [Then(updateLoginState(Cur(F), v, <<>>)) EXCEPT !.F = G]
                    twice == updateLoginState(once, v, <<>>)
                IN /\ twice = once
                   /\ twice.io = <<>> /\ twice.fetched = <<>> /\ ~twice.thrown

\* updateLoginState(true) without a user id has amended the current event of
\* a tracker not yet initialised, and a second call finds nothing to do.
C38_FlagSetAndCurrentEventAmended ==
    /\ variant = "A" /\ hasWindow
    /\ isLoggedIn /\ derivUserId = "" /\ ~isInitialized
    /\ CurrentIndex # 0
    /\ events[CurrentIndex].is_loggedin
    /\ updateLoginState(Cur({}), TRUE, <<>>) = Cur({})

====
